---------------------------- MODULE Spec2Model ----------------------------
(***************************************************************************)
(* Revenue leakage detector: the data analyst agent (clean, join, feature  *)
(* engineering, save), the audit analyst agent (load, five detectors,      *)
(* summary, save) and the orchestrator that runs them as phases.           *)
(*                                                                         *)
(* Units.  Money and usage amounts are integers.  Confidences, the         *)
(* confidence threshold and anomaly scores are integers in units of        *)
(* 1/10000, so that the two floats 0.9 and 0.8999999999999999 (the result  *)
(* of 0.6 + 0.3 and of 0.7 + 0.2 in binary floating point) stay distinct:  *)
(* they are 9000 and 8999.  tier_multiplier is in tenths.  Percentages     *)
(* are in 1/100 of a percent, truncated.                                   *)
(***************************************************************************)
EXTENDS Integers, Sequences, FiniteSets, TLC

(***************************************************************************)
(* Missing values.  A numeric NaN is the integer NaN below, outside every  *)
(* domain used; arithmetic propagates it and every comparison with it is   *)
(* false, as in pandas/numpy.                                              *)
(***************************************************************************)
NaN == -999999

INF == 999999999

IsNa(x) == x = NaN

Mul(a, b) == IF IsNa(a) \/ IsNa(b) THEN NaN ELSE a * b

Sub(a, b) == IF IsNa(a) \/ IsNa(b) THEN NaN ELSE a - b

Abs(a) == IF IsNa(a) THEN NaN ELSE IF a < 0 THEN 0 - a ELSE a

Gt(a, b) == ~IsNa(a) /\ ~IsNa(b) /\ a > b

Lt(a, b) == ~IsNa(a) /\ ~IsNa(b) /\ a < b

Eq(a, b) == ~IsNa(a) /\ ~IsNa(b) /\ a = b

FillNa(a) == IF IsNa(a) THEN 0 ELSE a

\* Python's max(1, x): x only when x > 1 is true, so max(1, nan) = 1.
Max1(x) == IF Gt(x, 1) THEN x ELSE 1

\* numpy.maximum(0, x): propagates NaN.
Maximum0(x) == IF IsNa(x) THEN NaN ELSE IF x > 0 THEN x ELSE 0

\* a / b * 100 in 1/100 of a percent, truncated toward zero; b > 0.
PctOf(a, b) ==
  IF IsNa(a) \/ IsNa(b) THEN NaN
  ELSE IF a >= 0 THEN (a * 10000) \div b ELSE 0 - (((0 - a) * 10000) \div b)

(***************************************************************************)
(* Confidence arithmetic: the float sums the helpers compute.              *)
(***************************************************************************)
One == 10000

\* a + b in double precision for the confidence values that occur:
\* 0.7 + 0.2 = 0.6 + 0.3 = 0.8999999999999999, and that + 0.1 =
\* 0.9999999999999999; every other sum that occurs is exact.
FAdd(a, b) ==
  IF <<a, b>> \in {<<7000, 2000>>, <<6000, 3000>>} THEN 8999
  ELSE IF <<a, b>> = <<8999, 1000>> THEN 9999
  ELSE a + b

Min(a, b) == IF a < b THEN a ELSE b

(***************************************************************************)
(* Business rules: the severity tables, in the dictionaries' order.        *)
(***************************************************************************)
\* Variant: the missing-charges table with nothing between 100 and 200.
leakage_rules_with_gap ==
  [ missing_charges  |-> << <<0, 100, "LOW">>, <<200, 1000, "MEDIUM">>,
                            <<1000, 5000, "HIGH">>, <<5000, INF, "CRITICAL">> >>,
    incorrect_rates  |-> << <<0, 50, "LOW">>, <<50, 500, "MEDIUM">>,
                            <<500, 2000, "HIGH">>, <<2000, INF, "CRITICAL">> >>,
    usage_mismatches |-> << <<0, 25, "LOW">>, <<25, 200, "MEDIUM">>,
                            <<200, 1000, "HIGH">>, <<1000, INF, "CRITICAL">> >>,
    duplicate_entries |-> << <<0, 50, "LOW">>, <<50, 200, "MEDIUM">>,
                             <<200, 1000, "HIGH">>, <<1000, INF, "CRITICAL">> >> ]

leakage_rules ==
  [ missing_charges  |-> << <<0, 100, "LOW">>, <<100, 1000, "MEDIUM">>,
                            <<1000, 5000, "HIGH">>, <<5000, INF, "CRITICAL">> >>,
    incorrect_rates  |-> << <<0, 50, "LOW">>, <<50, 500, "MEDIUM">>,
                            <<500, 2000, "HIGH">>, <<2000, INF, "CRITICAL">> >>,
    usage_mismatches |-> << <<0, 25, "LOW">>, <<25, 200, "MEDIUM">>,
                            <<200, 1000, "HIGH">>, <<1000, INF, "CRITICAL">> >>,
    duplicate_entries |-> << <<0, 50, "LOW">>, <<50, 200, "MEDIUM">>,
                             <<200, 1000, "HIGH">>, <<1000, INF, "CRITICAL">> >> ]

\* Variant: both ends of the interval the wrong way round.
InIntervalMaxInclusive(iv, loss) == ~IsNa(loss) /\ iv[1] < loss /\ loss <= iv[2]

\* min_val <= estimated_loss < max_val
InInterval(iv, loss) == ~IsNa(loss) /\ iv[1] <= loss /\ loss < iv[2]

\* The first interval of the type's table that contains the loss, else LOW.
_calculate_severity(leakage_type, estimated_loss) ==
  LET mapping == leakage_rules[leakage_type]
      hits == {i \in 1..Len(mapping) : InInterval(mapping[i], estimated_loss)}
  IN  IF hits = {} THEN "LOW"
      ELSE mapping[CHOOSE i \in hits : \A j \in hits : i <= j][3]


(***************************************************************************)
(* Tables.  A table is [present, cols, rows]: present is FALSE for a file  *)
(* or data frame that does not exist (None), cols is the set of column     *)
(* names and rows the sequence of rows.  A row is a record that has every  *)
(* field; the fields of columns that are not in cols are never read.       *)
(***************************************************************************)
NoTable == [present |-> FALSE, cols |-> {}, rows |-> <<>>]

\* record.get(col, default) on a row of table t.
Get(t, r, col, default) == IF col \in t.cols THEN r[col] ELSE default

\* Truthiness of a has_rate_error cell ("True", "False" or "nan"): a NaN
\* is truthy in Python.
Truthy(x) == x # "False"

MapSeq(F(_), s) == [i \in 1..Len(s) |-> F(s[i])]

Detection(type, r, severity, confidence, estimated_loss) ==
  [ leakage_type   |-> type,
    contract_id    |-> r.contract_id,
    customer_id    |-> r.customer_id,
    severity       |-> severity,
    confidence     |-> confidence,
    estimated_loss |-> estimated_loss ]

\* Variant: anomalies numbered with the prefix of the missing charges.
IdPrefixShared ==
  [ MISSING_CHARGES |-> "MISS", INCORRECT_RATES |-> "RATE",
    USAGE_MISMATCHES |-> "USAGE", DUPLICATE_ENTRIES |-> "DUP",
    STATISTICAL_ANOMALY |-> "MISS" ]

\* The prefix each detector gives its detection_id.
IdPrefix ==
  [ MISSING_CHARGES |-> "MISS", INCORRECT_RATES |-> "RATE",
    USAGE_MISMATCHES |-> "USAGE", DUPLICATE_ENTRIES |-> "DUP",
    STATISTICAL_ANOMALY |-> "ANOM" ]

\* f"{prefix}_{contract_id}_{timestamp}": the timestamp has a resolution of
\* one second, so the detections of a run may all carry the same one and it
\* tells no two of them apart.
detection_id(d) == << IdPrefix[d.leakage_type], d.contract_id >>

(***************************************************************************)
(* Confidence helpers.                                                     *)
(***************************************************************************)
\* Variant: the cap min(1.0, confidence) left out.
confidence_missing_charges_uncapped(t, r) ==
  LET c0 == 5000
      c1 == IF Get(t, r, "status", "None") = "Active" THEN FAdd(c0, 2000) ELSE c0
      c2 == IF Gt(Get(t, r, "total_usage", 0), 0) THEN FAdd(c1, 2000) ELSE c1
  IN  IF Eq(Get(t, r, "bill_count", 0), 0) THEN FAdd(c2, 3000) ELSE c2

_calculate_confidence_missing_charges(t, r) ==
  LET c0 == 5000
      c1 == IF Get(t, r, "status", "None") = "Active" THEN FAdd(c0, 2000) ELSE c0
      c2 == IF Gt(Get(t, r, "total_usage", 0), 0) THEN FAdd(c1, 2000) ELSE c1
      c3 == IF Eq(Get(t, r, "bill_count", 0), 0) THEN FAdd(c2, 3000) ELSE c2
  IN  Min(One, c3)

\* r carries the columns detect_incorrect_rates added: rate_variance_pct.
_calculate_confidence_incorrect_rates(t, r, rate_variance_pct) ==
  LET c0 == 6000
      c1 == IF Truthy(Get(t, r, "has_rate_error", "False")) THEN FAdd(c0, 3000) ELSE c0
      c2 == IF Gt(rate_variance_pct, 2000) THEN FAdd(c1, 1000) ELSE c1
  IN  Min(One, c2)

\* Variant: the bonus for usage above the allowance left out.
confidence_usage_mismatch_without_usage_bonus(t, r, usage_variance_pct) ==
  LET c0 == 6000
      c1 == IF Gt(usage_variance_pct, 5000) THEN FAdd(c0, 2000) ELSE c0
  IN  Min(One, c1)

_calculate_confidence_usage_mismatch(t, r, usage_variance_pct) ==
  LET c0 == 6000
      c1 == IF Gt(usage_variance_pct, 5000) THEN FAdd(c0, 2000) ELSE c0
      c2 == IF Gt(Get(t, r, "total_usage", 0), Get(t, r, "included_usage", 0))
            THEN FAdd(c1, 1000) ELSE c1
  IN  Min(One, c2)

(***************************************************************************)
(* detect_missing_charges                                                  *)
(***************************************************************************)
MissingChargesRaises(t) == ~({"total_billed", "bill_count"} \subseteq t.cols)

\* Variant: rows that have bills are never candidates for their bill_count.
IsMissingChargeCandidateZeroBilledOnly(r) ==
  Eq(r.total_billed, 0) \/ IsNa(r.total_billed)

IsMissingChargeCandidate(r) ==
  Eq(r.total_billed, 0) \/ IsNa(r.total_billed) \/ Eq(r.bill_count, 0)

MissingChargeLoss(t, r) ==
  Sub(Mul(Get(t, r, "contracted_rate", 0), Max1(Get(t, r, "bill_count", 0))),
      Get(t, r, "total_billed", 0))

MissingChargeDetection(t, r) ==
  Detection("MISSING_CHARGES", r,
            _calculate_severity("missing_charges", MissingChargeLoss(t, r)),
            _calculate_confidence_missing_charges(t, r),
            MissingChargeLoss(t, r))

detect_missing_charges(t, threshold) ==
  LET candidates == SelectSeq(t.rows, IsMissingChargeCandidate)
      F(r) == MissingChargeDetection(t, r)
      Emit(d) == d.confidence >= threshold
  IN  SelectSeq(MapSeq(F, candidates), Emit)

(***************************************************************************)
(* detect_incorrect_rates                                                  *)
(***************************************************************************)
IncorrectRatesRaises(t) == ~({"base_rate", "tier_multiplier"} \subseteq t.cols)

\* base_rate * tier_multiplier, tier_multiplier in tenths.
ExpectedRate(r) ==
  IF IsNa(r.base_rate) \/ IsNa(r.tier_multiplier) THEN NaN
  ELSE (r.base_rate * r.tier_multiplier) \div 10

RateVariance(t, r) == Abs(Sub(ExpectedRate(r), Get(t, r, "avg_bill_amount", 0)))

RateVariancePct(t, r) ==
  IF Gt(ExpectedRate(r), 0) THEN PctOf(RateVariance(t, r), ExpectedRate(r)) ELSE 0

\* Variant: either threshold is enough.
IsIncorrectRateCandidateEither(t, r) ==
  Gt(RateVariancePct(t, r), 500) \/ Gt(RateVariance(t, r), 10)

IsIncorrectRateCandidate(t, r) ==
  Gt(RateVariancePct(t, r), 500) /\ Gt(RateVariance(t, r), 10)

IncorrectRateLoss(t, r) == Mul(RateVariance(t, r), Get(t, r, "bill_count", 1))

IncorrectRateDetection(t, r) ==
  Detection("INCORRECT_RATES", r,
            _calculate_severity("incorrect_rates", IncorrectRateLoss(t, r)),
            _calculate_confidence_incorrect_rates(t, r, RateVariancePct(t, r)),
            IncorrectRateLoss(t, r))

detect_incorrect_rates(t, threshold) ==
  LET C(r) == IsIncorrectRateCandidate(t, r)
      F(r) == IncorrectRateDetection(t, r)
      Emit(d) == d.confidence >= threshold
  IN  SelectSeq(MapSeq(F, SelectSeq(t.rows, C)), Emit)

(***************************************************************************)
(* detect_usage_mismatches                                                 *)
(***************************************************************************)
IsUsageBased(r) == r.usage_based = TRUE

\* self.data['usage_based'] needs the column; the usage columns are read
\* only after the early return for an empty selection.
UsageMismatchesRaises(t) ==
  \/ "usage_based" \notin t.cols
  \/ /\ SelectSeq(t.rows, IsUsageBased) # <<>>
     /\ ~({"total_usage", "included_usage", "overage_rate"} \subseteq t.cols)

ActualOverageUsage(r) == Maximum0(Sub(r.total_usage, r.included_usage))

ExpectedOverageRevenue(r) == Mul(ActualOverageUsage(r), r.overage_rate)

OverageVariance(t, r) ==
  Sub(ExpectedOverageRevenue(r), Get(t, r, "overage_charge", 0))

UsageVariancePct(t, r) ==
  IF Gt(ExpectedOverageRevenue(r), 0)
  THEN Abs(PctOf(OverageVariance(t, r), ExpectedOverageRevenue(r)))
  ELSE 0

IsUsageMismatchCandidate(t, r) ==
  Gt(UsageVariancePct(t, r), 1500) /\ Gt(Abs(OverageVariance(t, r)), 5)

UsageMismatchLoss(t, r) == Abs(OverageVariance(t, r))

UsageMismatchDetection(t, r) ==
  Detection("USAGE_MISMATCHES", r,
            _calculate_severity("usage_mismatches", UsageMismatchLoss(t, r)),
            _calculate_confidence_usage_mismatch(t, r, UsageVariancePct(t, r)),
            UsageMismatchLoss(t, r))

detect_usage_mismatches(t, threshold) ==
  LET usage_analysis == SelectSeq(t.rows, IsUsageBased)
      C(r) == IsUsageMismatchCandidate(t, r)
      F(r) == UsageMismatchDetection(t, r)
      Emit(d) == d.confidence >= threshold
  IN  IF usage_analysis = <<>> THEN <<>>
      ELSE SelectSeq(MapSeq(F, SelectSeq(usage_analysis, C)), Emit)

(***************************************************************************)
(* detect_duplicate_entries                                                *)
(***************************************************************************)
\* An error_types cell is [na, tags]: na for a missing value, tags the
\* list of error tags.  'DUPLICATE_ENTRY' in str(x) if pd.notna(x) else False
HasDuplicateTag(r) ==
  /\ ~r.error_types.na
  /\ \E i \in 1..Len(r.error_types.tags) : r.error_types.tags[i] = "DUPLICATE_ENTRY"

DuplicateConfidence == 9000

DuplicateDetection(t, r) ==
  Detection("DUPLICATE_ENTRIES", r,
            _calculate_severity("duplicate_entries", Get(t, r, "total_billed", 0)),
            DuplicateConfidence,
            Get(t, r, "total_billed", 0))

\* Variant: duplicates gated by the confidence threshold like the other rules.
detect_duplicate_entries_gated(t, threshold) ==
  LET F(r) == DuplicateDetection(t, r)
      Emit(d) == d.confidence >= threshold
  IN  IF "error_types" \notin t.cols THEN <<>>
      ELSE SelectSeq(MapSeq(F, SelectSeq(t.rows, HasDuplicateTag)), Emit)

detect_duplicate_entries(t, threshold) ==
  LET F(r) == DuplicateDetection(t, r)
  IN  IF "error_types" \notin t.cols THEN <<>>
      ELSE MapSeq(F, SelectSeq(t.rows, HasDuplicateTag))

(***************************************************************************)
(* perform_anomaly_detection.  The outlier model is scikit-learn's         *)
(* IsolationForest; its result is an input here: out[i] = [pred, score]    *)
(* is the prediction (-1 outlier, 1 inlier) and the decision-function      *)
(* score of row i.                                                         *)
(***************************************************************************)
feature_columns ==
  {"contracted_rate", "total_billed", "avg_bill_amount", "bill_count",
   "revenue_variance_pct", "leakage_risk_score"}

MinAnomalyRows == 10

AnomalyScoreCutoff == -1000

MinAnomalyLoss == 10

MaxAnomalyConfidence == 8000

AnomalyRaises(t) == ~(feature_columns \subseteq t.cols)

\* Variant: the row minimum off by one.
InsufficientDataBelowNine(t) == Len(t.rows) < MinAnomalyRows - 1

InsufficientData(t) == Len(t.rows) < MinAnomalyRows

IsSignificantAnomaly(o) == o.pred = -1 /\ o.score < AnomalyScoreCutoff

AnomalyLoss(t, r) == Abs(Get(t, r, "revenue_variance", 0))

AnomalyConfidence(o) == Min(MaxAnomalyConfidence, Abs(o.score) * 2)

AnomalyDetection(t, r, o) ==
  Detection("STATISTICAL_ANOMALY", r,
            _calculate_severity("missing_charges", AnomalyLoss(t, r)),
            AnomalyConfidence(o),
            AnomalyLoss(t, r))

\* estimated_loss < 10 skips the row; a NaN loss is not < 10.
AnomalyEmitted(t, r, o) ==
  IsSignificantAnomaly(o) /\ ~Lt(AnomalyLoss(t, r), MinAnomalyLoss)

perform_anomaly_detection(t, out, threshold) ==
  LET idx == {i \in 1..Len(t.rows) : AnomalyEmitted(t, t.rows[i], out[i])}
      RECURSIVE Build(_)
      Build(i) ==
        IF i > Len(t.rows) THEN <<>>
        ELSE (IF i \in idx THEN <<AnomalyDetection(t, t.rows[i], out[i])>> ELSE <<>>)
             \o Build(i + 1)
  IN  IF InsufficientData(t) THEN <<>> ELSE Build(1)


(***************************************************************************)
(* Data analyst agent: clean_and_normalize_data.                           *)
(***************************************************************************)
Sources == {"customers", "contracts", "billing", "usage_logs"}

\* DataFrame.drop_duplicates(): the first of each group of equal rows.
RECURSIVE drop_duplicates(_)
drop_duplicates(rows) ==
  IF rows = <<>> THEN <<>>
  ELSE LET init == drop_duplicates(SubSeq(rows, 1, Len(rows) - 1))
           last == rows[Len(rows)]
       IN  IF \E i \in 1..Len(init) : init[i] = last THEN init
           ELSE Append(init, last)

\* billing: negative total_amount set to 0.
FixNegativeAmount(b) ==
  IF Lt(b.total_amount, 0) THEN [b EXCEPT !.total_amount = 0] ELSE b

\* Variant: every usage row kept.
AnyUsage(u) == TRUE

\* usage_logs: keep the rows with usage_amount >= 0.
NonNegativeUsage(u) == ~IsNa(u.usage_amount) /\ u.usage_amount >= 0

CleanSource(source, tbl) ==
  LET deduped == drop_duplicates(tbl.rows)
  IN  [tbl EXCEPT !.rows =
         IF source = "billing" THEN MapSeq(FixNegativeAmount, deduped)
         ELSE IF source = "usage_logs" THEN SelectSeq(deduped, NonNegativeUsage)
         ELSE deduped]

\* One entry per loaded source; a source that was not loaded stays absent.
clean_and_normalize_data(raw) ==
  [s \in Sources |-> IF raw[s].present THEN CleanSource(s, raw[s]) ELSE NoTable]

(***************************************************************************)
(* Data analyst agent: perform_intelligent_joins.                          *)
(***************************************************************************)
ContractCols ==
  {"contract_id", "customer_id", "usage_based", "base_rate", "tier_multiplier",
   "contracted_rate", "included_usage", "overage_rate"}

CustomerCols == {"customer_name", "status"}

BillingCols ==
  {"total_billed", "avg_bill_amount", "bill_count", "error_types", "has_rate_error"}

UsageCols == {"total_usage", "avg_usage", "max_daily_usage", "usage_days"}

NoErrorTypes == [na |-> TRUE, tags |-> <<>>]

\* The cells of a joined row that no source has filled yet.
BlankCells ==
  [ customer_name |-> "nan", status |-> "nan",
    total_billed |-> NaN, avg_bill_amount |-> NaN, bill_count |-> NaN,
    error_types |-> NoErrorTypes, has_rate_error |-> "nan",
    total_usage |-> NaN, avg_usage |-> NaN, max_daily_usage |-> NaN,
    usage_days |-> NaN, overage_charge |-> NaN,
    expected_monthly_revenue |-> NaN, revenue_variance |-> NaN,
    revenue_variance_pct |-> NaN, expected_overage_usage |-> NaN,
    expected_overage_revenue |-> NaN, leakage_risk_score |-> NaN ]

\* A contract row widened to the joined table's record shape.
FromContract(c) ==
  [ contract_id |-> c.contract_id, customer_id |-> c.customer_id,
    usage_based |-> c.usage_based, base_rate |-> c.base_rate,
    tier_multiplier |-> c.tier_multiplier, contracted_rate |-> c.contracted_rate,
    included_usage |-> c.included_usage, overage_rate |-> c.overage_rate ]
  @@ BlankCells

RECURSIVE SumSeq(_)
SumSeq(s) == IF s = <<>> THEN 0 ELSE s[1] + SumSeq(Tail(s))

RECURSIVE MaxSeq(_)
MaxSeq(s) ==
  IF Len(s) = 1 THEN s[1]
  ELSE LET m == MaxSeq(Tail(s)) IN IF s[1] > m THEN s[1] ELSE m

RECURSIVE Flatten(_)
Flatten(ss) == IF ss = <<>> THEN <<>> ELSE ss[1] \o Flatten(Tail(ss))

\* base_df.merge(customers[...], on='customer_id', how='left'): one output
\* row per matching customer row, one row with null customer fields when
\* there is none.
MergeCustomers(rows, customers) ==
  LET Expand(r) ==
        LET SameId(cu) == cu.customer_id = r.customer_id
            matches == SelectSeq(customers, SameId)
            With(cu) == [r EXCEPT !.customer_name = cu.customer_name,
                                  !.status = cu.status]
        IN  IF matches = <<>> THEN <<r>> ELSE MapSeq(With, matches)
  IN  Flatten(MapSeq(Expand, rows))

\* billing_df.groupby('contract_id').agg(...) for one contract, merged on.
\* sum, mean and count skip the events whose total_amount is missing.
MergeBilling(rows, billing) ==
  LET With(r) ==
        LET Mine(b) == b.contract_id = r.contract_id
            ev == SelectSeq(billing, Mine)
            Amount(b) == b.total_amount
            HasAmount(b) == ~IsNa(b.total_amount)
            amounts == MapSeq(Amount, SelectSeq(ev, HasAmount))
            Tagged(b) == b.billing_error_type # "nan"
            Tag(b) == b.billing_error_type
        IN  IF ev = <<>> THEN r
            ELSE [r EXCEPT
                   !.total_billed = SumSeq(amounts),
                   !.avg_bill_amount = IF amounts = <<>> THEN NaN
                                       ELSE SumSeq(amounts) \div Len(amounts),
                   !.bill_count = Len(amounts),
                   !.error_types = [na |-> FALSE,
                                    tags |-> MapSeq(Tag, SelectSeq(ev, Tagged))],
                   !.has_rate_error =
                       IF \E i \in 1..Len(ev) : ev[i].rate_error THEN "True"
                       ELSE "False"]
  IN  MapSeq(With, rows)

MergeUsage(rows, usage) ==
  LET With(r) ==
        LET Mine(u) == u.contract_id = r.contract_id
            ev == SelectSeq(usage, Mine)
            Amount(u) == u.usage_amount
        IN  IF ev = <<>> THEN r
            ELSE [r EXCEPT
                   !.total_usage = SumSeq(MapSeq(Amount, ev)),
                   !.avg_usage = SumSeq(MapSeq(Amount, ev)) \div Len(ev),
                   !.max_daily_usage = MaxSeq(MapSeq(Amount, ev)),
                   !.usage_days = Len(ev)]
  IN  MapSeq(With, rows)

NumericCols ==
  {"base_rate", "tier_multiplier", "contracted_rate", "included_usage",
   "overage_rate", "total_billed", "avg_bill_amount", "bill_count",
   "total_usage", "avg_usage", "max_daily_usage", "usage_days"}

\* base_df[numeric_columns].fillna(0) over the columns present.
FillNumeric(cols, r) ==
  [f \in DOMAIN r |-> IF f \in NumericCols \cap cols THEN FillNa(r[f]) ELSE r[f]]

\* df['has_rate_error'].astype(int) fails on a column that holds a NaN.
AsTypeIntRaises(cols, rows) ==
  /\ "has_rate_error" \in cols
  /\ \E i \in 1..Len(rows) : rows[i].has_rate_error = "nan"

RiskIndicators(cols, r) ==
  (IF "revenue_variance_pct" \in cols /\ Gt(Abs(r.revenue_variance_pct), 1000)
   THEN 1 ELSE 0)
  + (IF "has_rate_error" \in cols /\ r.has_rate_error = "True" THEN 1 ELSE 0)

\* Variant: the variance taken as billed minus expected.
create_derived_features_billed_minus_expected(cols, r0) ==
  LET revenue == {"total_billed", "contracted_rate"} \subseteq cols
      overage == {"total_usage", "included_usage"} \subseteq cols
      emr == Mul(r0.contracted_rate, r0.bill_count)
      r1 == IF revenue
            THEN [r0 EXCEPT
                   !.expected_monthly_revenue = emr,
                   !.revenue_variance = Sub(r0.total_billed, emr),
                   !.revenue_variance_pct =
                      IF Gt(emr, 0) THEN PctOf(Sub(r0.total_billed, emr), emr)
                      ELSE 0]
            ELSE r0
      r2 == IF overage
            THEN [r1 EXCEPT
                   !.expected_overage_usage =
                      Maximum0(Sub(r1.total_usage, r1.included_usage)),
                   !.expected_overage_revenue =
                      Mul(Maximum0(Sub(r1.total_usage, r1.included_usage)),
                          r1.overage_rate)]
            ELSE r1
      cols2 == cols \cup (IF revenue THEN {"revenue_variance_pct"} ELSE {})
  IN  [r2 EXCEPT !.leakage_risk_score = RiskIndicators(cols2, r2)]

_create_derived_features(cols, r0) ==
  LET revenue == {"total_billed", "contracted_rate"} \subseteq cols
      overage == {"total_usage", "included_usage"} \subseteq cols
      emr == Mul(r0.contracted_rate, r0.bill_count)
      r1 == IF revenue
            THEN [r0 EXCEPT
                   !.expected_monthly_revenue = emr,
                   !.revenue_variance = Sub(emr, r0.total_billed),
                   !.revenue_variance_pct =
                      IF Gt(emr, 0) THEN PctOf(Sub(emr, r0.total_billed), emr)
                      ELSE 0]
            ELSE r0
      r2 == IF overage
            THEN [r1 EXCEPT
                   !.expected_overage_usage =
                      Maximum0(Sub(r1.total_usage, r1.included_usage)),
                   !.expected_overage_revenue =
                      Mul(Maximum0(Sub(r1.total_usage, r1.included_usage)),
                          r1.overage_rate)]
            ELSE r1
      cols2 == cols \cup (IF revenue THEN {"revenue_variance_pct"} ELSE {})
  IN  [r2 EXCEPT !.leakage_risk_score = RiskIndicators(cols2, r2)]

DerivedCols(cols) ==
  (IF {"total_billed", "contracted_rate"} \subseteq cols
   THEN {"expected_monthly_revenue", "revenue_variance", "revenue_variance_pct"}
   ELSE {})
  \cup (IF {"total_usage", "included_usage"} \subseteq cols
        THEN {"expected_overage_usage", "expected_overage_revenue"} ELSE {})
  \cup {"leakage_risk_score"}

JoinedCols(pd) ==
  ContractCols
  \cup (IF pd["customers"].present THEN CustomerCols ELSE {})
  \cup (IF pd["billing"].present THEN BillingCols ELSE {})
  \cup (IF pd["usage_logs"].present THEN UsageCols ELSE {})

\* The merges, before fillna and the derived features.
MergedRows(pd) ==
  LET base == MapSeq(FromContract, pd["contracts"].rows)
      m1 == IF pd["customers"].present
            THEN MergeCustomers(base, pd["customers"].rows) ELSE base
      m2 == IF pd["billing"].present
            THEN MergeBilling(m1, pd["billing"].rows) ELSE m1
  IN  IF pd["usage_logs"].present THEN MergeUsage(m2, pd["usage_logs"].rows) ELSE m2

\* processed_data['contracts'] raises KeyError when contracts was not loaded.
JoinRaises(pd) ==
  \/ ~pd["contracts"].present
  \/ AsTypeIntRaises(JoinedCols(pd), MergedRows(pd))

perform_intelligent_joins(pd) ==
  LET cols == JoinedCols(pd)
      Fill(r) == FillNumeric(cols, r)
      Derive(r) == _create_derived_features(cols, r)
  IN  [ present |-> TRUE,
        cols |-> cols \cup DerivedCols(cols),
        rows |-> MapSeq(Derive, MapSeq(Fill, MergedRows(pd))) ]


(***************************************************************************)
(* Inputs.  The bounds of the model and the tables the runs start from.    *)
(***************************************************************************)
MaxContracts == 2

MaxCustomers == 2

MaxBilling == 2

MaxUsage == 2

\* The longest joined table handed to the audit agent on its own.
MaxRows == 10

DefaultThreshold == 7000

Thresholds == {5000, DefaultThreshold, 9000, One}

SeqsUpTo(S, n) == UNION {[1..k -> S] : k \in 0..n}

\* The selections of at most n of the options, in the options' order.
Selections(options, n) ==
  LET idx == {s \in SeqsUpTo(1..Len(options), n) :
                \A i, j \in 1..Len(s) : i < j => s[i] < s[j]}
  IN  {[i \in 1..Len(s) |-> options[s[i]]] : s \in idx}

Table(cols, rows) == [present |-> TRUE, cols |-> cols, rows |-> rows]

ContractOptions ==
  << [contract_id |-> 1, customer_id |-> 1, usage_based |-> TRUE, base_rate |-> 50,
      tier_multiplier |-> 12, contracted_rate |-> 100, included_usage |-> 10,
      overage_rate |-> 2],
     [contract_id |-> 2, customer_id |-> 9, usage_based |-> FALSE, base_rate |-> 50,
      tier_multiplier |-> 10, contracted_rate |-> 50, included_usage |-> 0,
      overage_rate |-> 0] >>

CustomerOptions ==
  << [customer_id |-> 1, customer_name |-> "Acme", status |-> "Active"],
     [customer_id |-> 1, customer_name |-> "Beta", status |-> "Cancelled"] >>

BillingOptions ==
  << [contract_id |-> 1, total_amount |-> 250, overage_charge |-> 80,
      billing_error_type |-> "DUPLICATE_ENTRY", rate_error |-> FALSE],
     [contract_id |-> 1, total_amount |-> -5, overage_charge |-> 0,
      billing_error_type |-> "nan", rate_error |-> TRUE],
     [contract_id |-> 2, total_amount |-> 150, overage_charge |-> 0,
      billing_error_type |-> "nan", rate_error |-> FALSE] >>

UsageOptions ==
  << [contract_id |-> 1, usage_amount |-> 50],
     [contract_id |-> 1, usage_amount |-> -5] >>

\* A contracts file may repeat a row; the other files hold distinct rows.
ContractTables ==
  {NoTable} \cup
  {Table(ContractCols, [i \in 1..Len(s) |-> ContractOptions[s[i]]]) :
     s \in SeqsUpTo(1..Len(ContractOptions), MaxContracts)}

CustomerTables ==
  {NoTable} \cup
  {Table({"customer_id"} \cup CustomerCols, rows) :
     rows \in Selections(CustomerOptions, MaxCustomers)}

BillingTables ==
  {NoTable} \cup
  {Table({"contract_id", "total_amount", "overage_charge", "billing_error_type",
          "rate_error"}, rows) :
     rows \in Selections(BillingOptions, MaxBilling)}

UsageTables ==
  {NoTable} \cup
  {Table({"contract_id", "usage_amount"}, rows) :
     rows \in Selections(UsageOptions, MaxUsage)}

\* Joined tables the audit agent may find on disk when it is run on its own.
AuditCols ==
  ContractCols \cup CustomerCols \cup BillingCols \cup UsageCols
  \cup DerivedCols(ContractCols \cup BillingCols \cup UsageCols)

AuditRow(status, contracted_rate, total_billed, bill_count, avg_bill_amount,
         has_rate_error, usage_based, total_usage, error_types) ==
  _create_derived_features(AuditCols,
    [ contract_id |-> 1, customer_id |-> 1, usage_based |-> usage_based,
      base_rate |-> 50, tier_multiplier |-> 12,
      contracted_rate |-> contracted_rate, included_usage |-> 10,
      overage_rate |-> 2, customer_name |-> "Acme", status |-> status,
      total_billed |-> total_billed, avg_bill_amount |-> avg_bill_amount,
      bill_count |-> bill_count, error_types |-> error_types,
      has_rate_error |-> has_rate_error, total_usage |-> total_usage,
      avg_usage |-> total_usage, max_daily_usage |-> total_usage,
      usage_days |-> IF total_usage = 0 THEN 0 ELSE 1 ] @@ BlankCells)

AuditRows ==
  { AuditRow(st, cr, tb, bc, ab, hr, ub, tu, et) :
      st \in {"Active", "Cancelled"}, cr \in {NaN, -50, 100},
      tb \in {NaN, 0, 250}, bc \in {0, 3}, ab \in {40, 60},
      hr \in {"True", "False"}, ub \in BOOLEAN, tu \in {0, 50},
      et \in {NoErrorTypes, [na |-> FALSE, tags |-> <<"DUPLICATE_ENTRY">>]} }

\* A correctly billed contract.
FillerRow(i) ==
  [ AuditRow("Active", 100, 300, 3, 60, "False", FALSE, 0,
             [na |-> FALSE, tags |-> <<>>])
    EXCEPT !.contract_id = i, !.customer_id = i ]

TableLens == {n \in 1..MaxRows : n <= 1 \/ n >= MinAnomalyRows - 1}

AuditTables ==
  { Table(AuditCols, [i \in 1..n |-> IF i = 1 THEN r ELSE FillerRow(i)]) :
      r \in AuditRows, n \in TableLens }

\* A joined table left on disk by an earlier run.
StaleTable ==
  Table(AuditCols,
        << AuditRow("Active", 100, 0, 0, 60, "False", FALSE, 50,
                    [na |-> FALSE, tags |-> <<"DUPLICATE_ENTRY">>]) >>)

\* What the outlier model may return for one row: the prediction is -1
\* exactly when the decision-function score is negative.
ModelOutputs ==
  { [pred |-> -1, score |-> -5000], [pred |-> -1, score |-> -1500],
    [pred |-> -1, score |-> -1000], [pred |-> -1, score |-> -500],
    [pred |-> 1, score |-> 500] }

Inlier == [pred |-> 1, score |-> 500]

\* contamination = 0.1: about one row in ten is an outlier, so on the tables
\* here at most one row gets a negative score; the other rows of the tables
\* here are alike, and the one that may stand out is the first.
ModelResults(n) ==
  { [i \in 1..n |-> IF i = 1 THEN o ELSE Inlier] : o \in ModelOutputs }

\* The fitted outlier model: the table it was fitted on and its result.
NoModel == [table |-> NoTable, out |-> <<>>]

\* Variant: a forest without random_state, whose result may differ from one
\* fit to the next.
FitPredictUnseeded(t, fitted) == ModelResults(Len(t.rows))

\* fit_predict and decision_function with random_state = 42: the result is a
\* function of the table, so fitting the same table again gives it again.
FitPredict(t, fitted) ==
  IF fitted.table = t THEN {fitted.out} ELSE ModelResults(Len(t.rows))


(***************************************************************************)
(* State.                                                                  *)
(***************************************************************************)
VARIABLES
  entry,                \* "pipeline": main.py; "audit_main": audit_analyst.py run as a script
  pc,                   \* the step that runs next
  sample,               \* the raw source files under data/sample
  raw_data,             \* DataAnalystAgent.raw_data
  processed_data,       \* DataAnalystAgent.processed_data
  joined_data,          \* DataAnalystAgent.joined_data
  disk_joined,          \* data/processed/joined_data.csv (and revenue_analysis)
  disk_detections,      \* data/processed/audit_detections.csv: [present, rows]
  confidence_threshold, \* AuditAnalystAgent.confidence_threshold
  data,                 \* AuditAnalystAgent.data
  all_detections,       \* run_full_audit's all_detections
  ran,                  \* the detectors that have returned in this audit
  failed,               \* the step of run_full_audit that raised, or "none"
  error,                \* the kind of the exception raised, or "none"
  scaler_fitted,        \* whether scaler and isolation forest were fitted
  audit_result,         \* what run_full_audit returned: [returned, detections, summary]
  phase,                \* results' status per phase: "NONE", "SUCCESS" or "FAILED"
  reporting_ran,        \* whether run_reporting was called
  execution_summary,    \* [done, overall_success, phases_completed]
  probe,                \* one call of _calculate_severity: [leakage_type, estimated_loss, severity]
  join_runs,            \* completed runs of the join engine on this data analyst
  audit_runs,           \* completed runs of run_full_audit on this audit analyst
  model_result,         \* the fitted outlier model: [table, out]
  is_running,           \* RealtimeMonitor.is_running
  threads,              \* the loop threads started so far: [kind, pc, generation]
  scheduled_jobs,       \* the number of jobs in the schedule module's default scheduler
  monitor_calls,        \* start_monitoring and stop_monitoring calls made so far
  recent_alerts,        \* RealtimeMonitor.recent_alerts, alerts named by their number
  alerts_sent,          \* alerts appended to recent_alerts so far
  received,             \* per alert handler, the number of alerts it was called with
  senders               \* per thread, its call of _send_alert: [pc, alert, handler, raised]

monitorVars ==
  << is_running, threads, scheduled_jobs, monitor_calls, recent_alerts,
     alerts_sent, received, senders >>

pipelineVars ==
  << entry, pc, sample, raw_data, processed_data, joined_data, disk_joined,
     disk_detections, confidence_threshold, data, all_detections, ran, failed,
     error, scaler_fitted, audit_result, phase, reporting_ran, execution_summary,
     probe, join_runs, audit_runs, model_result >>

vars == << pipelineVars, monitorVars >>

\* The alert handlers registered with add_alert_handler.
MaxHandlers == 2

Handlers == 1..MaxHandlers

\* The threads that may be inside _send_alert at the same time.
Contexts == {"caller", "monitoring", "scheduler"}

NoCall == [pc |-> "idle", alert |-> 0, handler |-> 0, raised |-> FALSE]

\* RealtimeMonitor.__init__ followed by the add_alert_handler calls.
MonitorConstructed ==
  /\ is_running = FALSE
  /\ threads = <<>>
  /\ scheduled_jobs = 0
  /\ monitor_calls = 0
  /\ recent_alerts = <<>>
  /\ alerts_sent = 0
  /\ received = [h \in Handlers |-> 0]
  /\ senders = [c \in Contexts |-> NoCall]

analystVars == << raw_data, processed_data, joined_data >>

auditVars ==
  << data, all_detections, ran, failed, error, scaler_fitted, audit_result >>

Detectors ==
  {"missing_charges", "incorrect_rates", "usage_mismatches", "duplicate_entries",
   "anomaly"}

NoSources == [s \in Sources |-> NoTable]

NoResult == [returned |-> FALSE, detections |-> <<>>, summary |-> [total_detections |-> 0]]

NoSummary == [done |-> FALSE, overall_success |-> FALSE, phases_completed |-> 0]

InitCommon ==
  /\ raw_data = NoSources
  /\ processed_data = NoSources
  /\ joined_data = NoTable
  /\ disk_detections = [present |-> FALSE, rows |-> <<>>]
  /\ data = NoTable
  /\ all_detections = <<>>
  /\ ran = {}
  /\ failed = "none"
  /\ error = "none"
  /\ scaler_fitted = FALSE
  /\ audit_result = NoResult
  /\ phase = [data_analysis |-> "NONE", audit_detections |-> "NONE",
              reports_and_tickets |-> "NONE"]
  /\ reporting_ran = FALSE
  /\ execution_summary = NoSummary
  /\ join_runs = 0
  /\ audit_runs = 0
  /\ model_result = NoModel
  /\ MonitorConstructed

NoProbe == [leakage_type |-> "none", estimated_loss |-> 0, severity |-> "none"]

\* main.py: the three phases from the raw files.
InitPipeline ==
  /\ probe = NoProbe
  /\ entry = "pipeline"
  /\ pc = "load_raw"
  /\ sample \in [customers : CustomerTables, contracts : ContractTables,
                 billing : BillingTables, usage_logs : UsageTables]
  /\ disk_joined \in {NoTable, StaleTable}
  /\ confidence_threshold \in {DefaultThreshold, One}
  /\ InitCommon

\* audit_analyst.py as a script: run_full_audit on what is on disk.
InitAudit ==
  /\ probe = NoProbe
  /\ entry = "audit_main"
  /\ pc = "load_processed"
  /\ sample = NoSources
  /\ disk_joined \in {NoTable} \cup AuditTables
  /\ confidence_threshold \in Thresholds
  /\ InitCommon

Init == InitPipeline \/ InitAudit

(***************************************************************************)
(* Phase 1: RevenueLeakageDetectionSystem.run_data_analysis, which runs    *)
(* DataAnalystAgent.run_full_analysis step by step.                        *)
(***************************************************************************)
\* Variant: phase 2 is run although the data analysis raised.
Phase1FailsThenAudits ==
  /\ phase' = [phase EXCEPT !.data_analysis = "FAILED"]
  /\ pc' = "load_processed"

\* run_data_analysis catches the exception; phases 2 and 3 are skipped.
Phase1Fails ==
  /\ phase' = [phase EXCEPT !.data_analysis = "FAILED"]
  /\ pc' = "summary"

load_raw_data ==
  /\ pc = "load_raw"
  /\ raw_data' = sample
  /\ pc' = "clean"
  /\ UNCHANGED << monitorVars, probe, join_runs, audit_runs, model_result,
                  entry, sample, processed_data, joined_data, disk_joined,
                  disk_detections, confidence_threshold, auditVars, phase,
                  reporting_ran, execution_summary >>

CleanAndNormalizeData ==
  /\ pc = "clean"
  /\ processed_data' = clean_and_normalize_data(raw_data)
  /\ pc' = "join"
  /\ UNCHANGED << monitorVars, probe, join_runs, audit_runs, model_result,
                  entry, sample, raw_data, joined_data, disk_joined,
                  disk_detections, confidence_threshold, auditVars, phase,
                  reporting_ran, execution_summary >>

\* Variant: a join engine that keeps the rows of its previous run.
PerformIntelligentJoinsAppending ==
  /\ pc = "join"
  /\ IF JoinRaises(processed_data)
     THEN /\ Phase1Fails
          /\ UNCHANGED << joined_data, join_runs >>
     ELSE /\ joined_data' =
               [ perform_intelligent_joins(processed_data) EXCEPT
                   !.rows = joined_data.rows \o @ ]
          /\ join_runs' = join_runs + 1
          /\ pc' = "save"
          /\ UNCHANGED phase
  /\ UNCHANGED << monitorVars, probe, audit_runs, model_result,
                  entry, sample, raw_data, processed_data, disk_joined,
                  disk_detections, confidence_threshold, auditVars,
                  reporting_ran, execution_summary >>

PerformIntelligentJoins ==
  /\ pc = "join"
  /\ IF JoinRaises(processed_data)
     THEN /\ Phase1Fails
          /\ UNCHANGED << joined_data, join_runs >>
     ELSE /\ joined_data' = perform_intelligent_joins(processed_data)
          /\ join_runs' = join_runs + 1
          /\ pc' = "save"
          /\ UNCHANGED phase
  /\ UNCHANGED << monitorVars, probe, audit_runs, model_result,
                  entry, sample, raw_data, processed_data, disk_joined,
                  disk_detections, confidence_threshold, auditVars,
                  reporting_ran, execution_summary >>

\* save_processed_data swallows a failure to write and returns False, which
\* run_full_analysis ignores: the phase succeeds either way.
save_processed_data ==
  /\ pc = "save"
  /\ \E written \in BOOLEAN :
       disk_joined' = IF written THEN joined_data ELSE disk_joined
  /\ phase' = [phase EXCEPT !.data_analysis = "SUCCESS"]
  /\ pc' = "load_processed"
  /\ UNCHANGED << monitorVars, probe, join_runs, audit_runs, model_result,
                  entry, sample, analystVars, disk_detections,
                  confidence_threshold, auditVars, reporting_ran,
                  execution_summary >>

(***************************************************************************)
(* Phase 2: run_audit_analysis, which runs AuditAnalystAgent.run_full_audit*)
(* step by step.                                                           *)
(***************************************************************************)
\* Variant: phase 3 is run although the audit raised.
AuditRaisesThenReports(step, kind) ==
  /\ failed' = step
  /\ error' = kind
  /\ IF entry = "pipeline"
     THEN /\ phase' = [phase EXCEPT !.audit_detections = "FAILED"]
          /\ pc' = "reporting"
     ELSE /\ pc' = "done"
          /\ UNCHANGED phase

\* run_full_audit logs and re-raises.  Under main.py run_audit_analysis
\* catches the exception, records FAILED, and phase 3 is skipped; the
\* script lets it end the process.
AuditRaises(step, kind) ==
  /\ failed' = step
  /\ error' = kind
  /\ IF entry = "pipeline"
     THEN /\ phase' = [phase EXCEPT !.audit_detections = "FAILED"]
          /\ pc' = "summary"
     ELSE /\ pc' = "done"
          /\ UNCHANGED phase

load_processed_data ==
  /\ pc = "load_processed"
  /\ IF disk_joined.present
     THEN /\ data' = disk_joined
          /\ pc' = "missing_charges"
          /\ UNCHANGED << failed, error, phase >>
     ELSE /\ AuditRaises("load", "FileNotFoundError")
          /\ UNCHANGED data
  /\ UNCHANGED << monitorVars, probe, join_runs, audit_runs, model_result,
                  entry, sample, analystVars, disk_joined, disk_detections,
                  confidence_threshold, all_detections, ran, scaler_fitted,
                  audit_result, reporting_ran, execution_summary >>

\* One detector call of run_full_audit and the extend that follows it.
DetectorStep(step, next, raises, found) ==
  /\ pc = step
  /\ IF raises
     THEN /\ AuditRaises(step, "KeyError")
          /\ UNCHANGED << all_detections, ran >>
     ELSE /\ all_detections' = all_detections \o found
          /\ ran' = ran \cup {step}
          /\ pc' = next
          /\ UNCHANGED << failed, error, phase >>
  /\ UNCHANGED << monitorVars, probe, join_runs, audit_runs,
                  entry, sample, analystVars, disk_joined, disk_detections,
                  confidence_threshold, data, audit_result, reporting_ran,
                  execution_summary >>

DetectMissingCharges ==
  /\ DetectorStep("missing_charges", "incorrect_rates", MissingChargesRaises(data),
                  detect_missing_charges(data, confidence_threshold))
  /\ UNCHANGED << scaler_fitted, model_result >>

DetectIncorrectRates ==
  /\ DetectorStep("incorrect_rates", "usage_mismatches", IncorrectRatesRaises(data),
                  detect_incorrect_rates(data, confidence_threshold))
  /\ UNCHANGED << scaler_fitted, model_result >>

DetectUsageMismatches ==
  /\ DetectorStep("usage_mismatches", "duplicate_entries", UsageMismatchesRaises(data),
                  detect_usage_mismatches(data, confidence_threshold))
  /\ UNCHANGED << scaler_fitted, model_result >>

DetectDuplicateEntries ==
  /\ DetectorStep("duplicate_entries", "anomaly", FALSE,
                  detect_duplicate_entries(data, confidence_threshold))
  /\ UNCHANGED << scaler_fitted, model_result >>

\* The scaler and the forest are fitted only past the row minimum.
PerformAnomalyDetection ==
  /\ pc = "anomaly"
  /\ IF AnomalyRaises(data) \/ InsufficientData(data)
     THEN /\ DetectorStep("anomaly", "aggregate", AnomalyRaises(data), <<>>)
          /\ UNCHANGED << scaler_fitted, model_result >>
     ELSE \E out \in FitPredict(data, model_result) :
            /\ DetectorStep("anomaly", "aggregate", FALSE,
                            perform_anomaly_detection(data, out, confidence_threshold))
            /\ scaler_fitted' = TRUE
            /\ model_result' = [table |-> data, out |-> out]

\* a + b on amounts that may be missing.
Add(a, b) == IF IsNa(a) \/ IsNa(b) THEN NaN ELSE a + b

RECURSIVE SumLoss(_)
SumLoss(ds) == IF ds = <<>> THEN 0 ELSE Add(ds[1].estimated_loss, SumLoss(Tail(ds)))

RECURSIVE SumConfidence(_)
SumConfidence(ds) == IF ds = <<>> THEN 0 ELSE ds[1].confidence + SumConfidence(Tail(ds))

\* round(mean, 3): the mean of n confidences that sum to total, in
\* thousandths, rounded to the nearest.
RoundedMean(total, n) == (2 * total + 10 * n) \div (20 * n)

SeverityNames == {"LOW", "MEDIUM", "HIGH", "CRITICAL"}

\* Variant: only CRITICAL detections counted as high priority.
analysis_summary_critical_only(detections) ==
  LET OfType_(ty) == LET Is(d) == d.leakage_type = ty IN SelectSeq(detections, Is)
      OfSeverity(sv) == LET Is(d) == d.severity = sv IN SelectSeq(detections, Is)
      types == {detections[i].leakage_type : i \in 1..Len(detections)}
      by_severity == [sv \in SeverityNames |-> Len(OfSeverity(sv))]
  IN  [ total_detections |-> Len(detections),
        total_estimated_loss |-> SumLoss(detections),
        detections_by_type |->
          [ty \in types |-> [count |-> Len(OfType_(ty)), loss |-> SumLoss(OfType_(ty))]],
        detections_by_severity |-> by_severity,
        high_priority_count |-> by_severity["CRITICAL"],
        average_confidence |->
          IF detections = <<>> THEN 0
          ELSE RoundedMean(SumConfidence(detections), Len(detections)),
        ready_for_reporting_agent |-> Len(detections) > 0 ]

\* Amounts are whole currency units here, so round(total, 2) leaves the
\* total as it is; average_confidence is in thousandths.
_generate_analysis_summary(detections) ==
  LET OfType_(ty) == LET Is(d) == d.leakage_type = ty IN SelectSeq(detections, Is)
      OfSeverity(sv) == LET Is(d) == d.severity = sv IN SelectSeq(detections, Is)
      types == {detections[i].leakage_type : i \in 1..Len(detections)}
      by_severity == [sv \in SeverityNames |-> Len(OfSeverity(sv))]
  IN  [ total_detections |-> Len(detections),
        total_estimated_loss |-> SumLoss(detections),
        detections_by_type |->
          [ty \in types |-> [count |-> Len(OfType_(ty)), loss |-> SumLoss(OfType_(ty))]],
        detections_by_severity |-> by_severity,
        high_priority_count |-> by_severity["HIGH"] + by_severity["CRITICAL"],
        average_confidence |->
          IF detections = <<>> THEN 0
          ELSE RoundedMean(SumConfidence(detections), Len(detections)),
        ready_for_reporting_agent |-> Len(detections) > 0 ]

\* _save_detection_results returns without writing when there is nothing
\* to save.
_save_detection_results(detections, old) ==
  IF detections = <<>> THEN old ELSE [present |-> TRUE, rows |-> detections]

\* Steps 3 and 4 of run_full_audit and its return into run_audit_analysis.
AggregateAndSave ==
  /\ pc = "aggregate"
  /\ audit_result' = [returned |-> TRUE, detections |-> all_detections,
                      summary |-> _generate_analysis_summary(all_detections)]
  /\ disk_detections' = _save_detection_results(all_detections, disk_detections)
  /\ IF entry = "pipeline"
     THEN /\ phase' = [phase EXCEPT !.audit_detections = "SUCCESS"]
          /\ pc' = "reporting"
     ELSE /\ pc' = "done"
          /\ UNCHANGED phase
  /\ audit_runs' = audit_runs + 1
  /\ UNCHANGED << monitorVars, probe, join_runs, model_result,
                  entry, sample, analystVars, disk_joined, confidence_threshold,
                  data, all_detections, ran, failed, error, scaler_fitted,
                  reporting_ran, execution_summary >>

(***************************************************************************)
(* Phase 3 and the execution summary.                                      *)
(***************************************************************************)
\* The reporting agent either returns or raises; run_reporting records it.
RunReporting ==
  /\ pc = "reporting"
  /\ reporting_ran' = TRUE
  /\ \E ok \in BOOLEAN :
       phase' = [phase EXCEPT !.reports_and_tickets =
                                 IF ok THEN "SUCCESS" ELSE "FAILED"]
  /\ pc' = "summary"
  /\ UNCHANGED << monitorVars, probe, join_runs, audit_runs, model_result,
                  entry, sample, analystVars, disk_joined, disk_detections,
                  confidence_threshold, auditVars, execution_summary >>

Succeeded(p) == IF phase[p] = "SUCCESS" THEN 1 ELSE 0

generate_execution_summary ==
  /\ pc = "summary"
  /\ execution_summary' =
       [ done |-> TRUE,
         overall_success |-> /\ phase.data_analysis = "SUCCESS"
                             /\ phase.audit_detections = "SUCCESS"
                             /\ phase.reports_and_tickets = "SUCCESS",
         phases_completed |-> Succeeded("data_analysis")
                              + Succeeded("audit_detections")
                              + Succeeded("reports_and_tickets") ]
  /\ pc' = "done"
  /\ UNCHANGED << monitorVars, probe, join_runs, audit_runs, model_result,
                  entry, sample, analystVars, disk_joined, disk_detections,
                  confidence_threshold, auditVars, phase, reporting_ran >>

Next ==
  \/ load_raw_data
  \/ CleanAndNormalizeData
  \/ PerformIntelligentJoins
  \/ save_processed_data
  \/ load_processed_data
  \/ DetectMissingCharges
  \/ DetectIncorrectRates
  \/ DetectUsageMismatches
  \/ DetectDuplicateEntries
  \/ PerformAnomalyDetection
  \/ AggregateAndSave
  \/ RunReporting
  \/ generate_execution_summary

Spec == Init /\ [][Next]_vars


(***************************************************************************)
(* The same agent instances used again: the join engine run a second time  *)
(* on the raw tables it holds, run_full_audit called a second time on the  *)
(* same joined table.                                                      *)
(***************************************************************************)
MaxJoinRuns == 2

MaxAuditRuns == 2

\* clean_and_normalize_data and perform_intelligent_joins called again.
RerunJoinEngine ==
  /\ pc = "save"
  /\ join_runs < MaxJoinRuns
  /\ pc' = "clean"
  /\ UNCHANGED << monitorVars, probe, join_runs, audit_runs, model_result, entry, sample,
                  analystVars, disk_joined, disk_detections, confidence_threshold,
                  auditVars, phase, reporting_ran, execution_summary >>

\* run_full_audit called again: all_detections is a fresh local list, while
\* the instance keeps what the first call left (data, detections, the
\* fitted scaler and forest).
RerunAudit ==
  /\ entry = "audit_main"
  /\ pc = "done"
  /\ audit_result.returned
  /\ audit_runs < MaxAuditRuns
  /\ pc' = "load_processed"
  /\ all_detections' = <<>>
  /\ ran' = {}
  /\ UNCHANGED << monitorVars, probe, join_runs, audit_runs, model_result, entry, sample,
                  analystVars, disk_joined, disk_detections, confidence_threshold,
                  data, failed, error, scaler_fitted, audit_result, phase,
                  reporting_ran, execution_summary >>

\* The joined tables of the second audit: one contract that may stand out
\* among correctly billed ones, or on its own.
RerunTables ==
  { Table(AuditCols, [i \in 1..n |-> IF i = 1 THEN r ELSE FillerRow(i)]) :
      r \in {x \in AuditRows : x.status = "Active" /\ x.avg_bill_amount = 40
                                /\ x.usage_based},
      n \in {1, MinAnomalyRows} }

InitRerunAudit ==
  /\ probe = NoProbe
  /\ entry = "audit_main"
  /\ pc = "load_processed"
  /\ sample = NoSources
  /\ disk_joined \in RerunTables
  /\ confidence_threshold \in Thresholds
  /\ InitCommon

InitRerun == InitPipeline \/ InitRerunAudit

NextRerun == Next \/ RerunJoinEngine \/ RerunAudit

SpecRerun == InitRerun /\ [][NextRerun]_vars


(***************************************************************************)
(* _calculate_severity on its own: every leakage type that has a table,    *)
(* every loss from -1 to MaxLoss and the undefined loss.                   *)
(***************************************************************************)
MaxLoss == 5001

LeakageTypes ==
  {"missing_charges", "incorrect_rates", "usage_mismatches", "duplicate_entries"}

InitSeverity ==
  /\ probe \in [leakage_type : LeakageTypes,
                estimated_loss : {NaN} \cup (-1..MaxLoss),
                severity : {"none"}]
  /\ entry = "severity"
  /\ pc = "severity"
  /\ sample = NoSources
  /\ disk_joined = NoTable
  /\ confidence_threshold = DefaultThreshold
  /\ InitCommon

CalculateSeverity ==
  /\ pc = "severity"
  /\ probe.severity = "none"
  /\ probe' = [probe EXCEPT !.severity =
                 _calculate_severity(probe.leakage_type, probe.estimated_loss)]
  /\ UNCHANGED << monitorVars, entry, pc, sample, analystVars, disk_joined, disk_detections,
                  confidence_threshold, auditVars, phase, reporting_ran,
                  execution_summary, join_runs, audit_runs, model_result >>

NextSeverity == CalculateSeverity

SpecSeverity == InitSeverity /\ [][NextSeverity]_vars


(***************************************************************************)
(* Properties.                                                             *)
(***************************************************************************)
Severities == {"LOW", "MEDIUM", "HIGH", "CRITICAL"}

OfType(type) == LET Is(d) == d.leakage_type = type IN SelectSeq(all_detections, Is)

\* C1: every detection run_full_audit returns whose leakage type is not
\* DUPLICATE_ENTRIES (missing charges, incorrect rates, usage mismatches,
\* statistical anomaly) has confidence >= confidence_threshold.
C1_NonDuplicateAboveThreshold ==
  audit_result.returned =>
    \A i \in 1..Len(audit_result.detections) :
      audit_result.detections[i].leakage_type # "DUPLICATE_ENTRIES"
        => audit_result.detections[i].confidence >= confidence_threshold

\* C2: every detection any detector emits reports an estimated loss that is
\* a number >= 0.
C2_LossNonNegative ==
  \A i \in 1..Len(all_detections) :
    /\ ~IsNa(all_detections[i].estimated_loss)
    /\ all_detections[i].estimated_loss >= 0

\* C3: every detection has 0 <= confidence <= 1 (a duplicate exactly 0.9, an
\* anomaly at most 0.8) and a severity among LOW, MEDIUM, HIGH, CRITICAL.
C3_ConfidenceAndSeverityInRange ==
  \A i \in 1..Len(all_detections) :
    LET d == all_detections[i]
    IN  /\ 0 <= d.confidence /\ d.confidence <= 10000
        /\ d.leakage_type = "DUPLICATE_ENTRIES" => d.confidence = 9000
        /\ d.leakage_type = "STATISTICAL_ANOMALY" => d.confidence <= 8000
        /\ d.severity \in Severities

\* A finished audit that emitted a missing-charges detection whose bonuses
\* add up to more than 1.0 (capped to 1.0) and an anomaly at the 0.8 cap.
C3_Witness ==
  /\ audit_result.returned
  /\ \E i \in 1..Len(all_detections) :
       /\ all_detections[i].leakage_type = "MISSING_CHARGES"
       /\ all_detections[i].confidence = 10000
  /\ \E i \in 1..Len(all_detections) :
       /\ all_detections[i].leakage_type = "STATISTICAL_ANOMALY"
       /\ all_detections[i].confidence = 8000

\* The boundaries the severity tables are documented to have.
ClaimedBoundaries ==
  [ missing_charges |-> <<100, 1000, 5000>>, incorrect_rates |-> <<50, 500, 2000>>,
    usage_mismatches |-> <<25, 200, 1000>>, duplicate_entries |-> <<50, 200, 1000>> ]

ClaimedSeverity(type, loss) ==
  LET b == ClaimedBoundaries[type]
  IN  IF IsNa(loss) \/ loss < b[1] THEN "LOW"
      ELSE IF loss < b[2] THEN "MEDIUM"
      ELSE IF loss < b[3] THEN "HIGH"
      ELSE "CRITICAL"

\* C4: _calculate_severity returns the severity of the half-open interval
\* [min, max) that contains the loss and LOW when none does: below the first
\* boundary LOW, from it MEDIUM, from the second HIGH, from the third
\* CRITICAL, with the boundaries 100/1000/5000, 50/500/2000, 25/200/1000 and
\* 50/200/1000.
C4_SeverityBoundaries ==
  probe.severity # "none" =>
    probe.severity = ClaimedSeverity(probe.leakage_type, probe.estimated_loss)

\* A missing-charges loss of exactly 100 was mapped to MEDIUM.
C4_Witness ==
  /\ probe.leakage_type = "missing_charges"
  /\ probe.estimated_loss = 100
  /\ probe.severity = "MEDIUM"

\* C5: after perform_intelligent_joins the joined table has exactly one row
\* for each row of the (cleaned) contracts table, in the same order.
C5_OneRowPerContract ==
  joined_data.present =>
    LET contracts == processed_data["contracts"].rows
    IN  /\ Len(joined_data.rows) = Len(contracts)
        /\ \A i \in 1..Len(contracts) :
             joined_data.rows[i].contract_id = contracts[i].contract_id

\* C6: when one detector fails during run_full_audit, the other detectors
\* still run and run_full_audit returns the detections and the summary of
\* those that succeeded.
C6_DetectorFailureIsolated ==
  (pc = "done" /\ failed \in Detectors) =>
    /\ audit_result.returned
    /\ (Detectors \ {failed}) \subseteq ran

UsageTableMissing == data.present /\ data.cols \cap UsageCols = {}

\* C7: when the usage-events table was not loaded (the joined table has no
\* usage aggregate columns), detect_usage_mismatches returns an empty list
\* without raising, also when usage-based contracts exist, and the
\* remaining detectors run.
C7_MissingUsageTableTolerated ==
  UsageTableMissing =>
    /\ failed # "usage_mismatches"
    /\ OfType("USAGE_MISMATCHES") = <<>>
    /\ (pc = "done" /\ "incorrect_rates" \in ran) =>
         {"usage_mismatches", "duplicate_entries", "anomaly"} \subseteq ran

\* run_full_audit has been entered: past load_processed_data.
AuditStarted ==
  /\ pc \notin {"load_raw", "clean", "join", "save", "load_processed", "severity"}
  /\ entry = "pipeline" => phase.data_analysis = "SUCCESS"

\* C8: when no joined table exists, load_processed_data raises the
\* no-input-data error (FileNotFoundError, raised by no other step) before
\* any detector runs; run_full_audit returns nothing and writes no results;
\* the orchestrator records the audit phase as FAILED and does not run the
\* reporting phase.
C8_NoInputData ==
  /\ (AuditStarted /\ ~disk_joined.present) =>
       /\ failed = "load" /\ error = "FileNotFoundError"
       /\ ran = {} /\ all_detections = <<>>
       /\ ~audit_result.returned
       /\ ~disk_detections.present
       /\ entry = "pipeline" =>
            /\ phase.audit_detections = "FAILED"
            /\ ~reporting_ran /\ phase.reports_and_tickets = "NONE"
            /\ execution_summary.done => ~execution_summary.overall_success
  /\ error = "FileNotFoundError" => failed = "load"

\* The pipeline ended after phase 1 succeeded without leaving a joined table.
C8_Witness ==
  /\ entry = "pipeline" /\ pc = "done"
  /\ phase.data_analysis = "SUCCESS"
  /\ ~disk_joined.present
  /\ failed = "load"

RuleDetections ==
  detect_missing_charges(data, confidence_threshold)
  \o detect_incorrect_rates(data, confidence_threshold)
  \o detect_usage_mismatches(data, confidence_threshold)
  \o detect_duplicate_entries(data, confidence_threshold)

\* C9: on a joined table of fewer than 10 rows perform_anomaly_detection
\* returns an empty list without raising and without fitting the scaler or
\* the outlier model, and the findings of the rule detectors stay as they
\* were.
C9_InsufficientRows ==
  (data.present /\ Len(data.rows) < 10 /\ pc \in {"aggregate", "reporting", "summary", "done"}
   /\ "duplicate_entries" \in ran) =>
    /\ "anomaly" \in ran /\ failed = "none"
    /\ ~scaler_fitted
    /\ OfType("STATISTICAL_ANOMALY") = <<>>
    /\ all_detections = RuleDetections

\* The anomaly pass ran on a 9-row table next to rule findings.
C9_Witness ==
  /\ "anomaly" \in ran
  /\ Len(data.rows) = 9
  /\ all_detections # <<>>

FlaggedDuplicate(r) ==
  ~r.error_types.na /\
  "DUPLICATE_ENTRY" \in {r.error_types.tags[k] : k \in 1..Len(r.error_types.tags)}

RateRow(base_rate, tier_multiplier, avg_bill_amount, bill_count, has_rate_error) ==
  [ AuditRow("Active", 100, 300, bill_count, avg_bill_amount, has_rate_error,
             FALSE, 0, [na |-> FALSE, tags |-> <<>>])
    EXCEPT !.base_rate = base_rate, !.tier_multiplier = tier_multiplier ]

RateTables ==
  { Table(AuditCols, << RateRow(br, tm, ab, bc, hr) >>) :
      br \in {0, 50, 500}, tm \in {10, 12}, ab \in {NaN, 40, 50, 60, 480, 580},
      bc \in {0, 1, 3}, hr \in {"True", "False"} }

\* An audit analyst that has loaded one of the tables and is at step.
InitLoaded(tables, step) ==
  /\ probe = NoProbe
  /\ entry = "audit_main"
  /\ pc = step
  /\ sample = NoSources
  /\ disk_joined \in tables
  /\ data = disk_joined
  /\ confidence_threshold \in Thresholds
  /\ raw_data = NoSources
  /\ processed_data = NoSources
  /\ joined_data = NoTable
  /\ disk_detections = [present |-> FALSE, rows |-> <<>>]
  /\ all_detections = <<>>
  /\ ran = {}
  /\ failed = "none"
  /\ error = "none"
  /\ scaler_fitted = FALSE
  /\ audit_result = NoResult
  /\ phase = [data_analysis |-> "NONE", audit_detections |-> "NONE",
              reports_and_tickets |-> "NONE"]
  /\ reporting_ran = FALSE
  /\ execution_summary = NoSummary
  /\ join_runs = 0
  /\ audit_runs = 0
  /\ model_result = NoModel
  /\ MonitorConstructed

InitRates == InitLoaded(RateTables, "incorrect_rates")

NextRates == DetectIncorrectRates

SpecRates == InitRates /\ [][NextRates]_vars

(***************************************************************************)
(* Properties of the detectors.                                            *)
(***************************************************************************)
\* 0.5 + 0.2*[status = Active] + 0.2*[total_usage > 0] + 0.3*[bill_count = 0],
\* capped at 1.0.
ClaimedMissingConfidence(r) ==
  LET active == "status" \in data.cols /\ r.status = "Active"
      used == "total_usage" \in data.cols /\ Gt(r.total_usage, 0)
      unbilled == Eq(r.bill_count, 0)
  IN  Min(One, FAdd(FAdd(FAdd(5000, IF active THEN 2000 ELSE 0),
                         IF used THEN 2000 ELSE 0),
                    IF unbilled THEN 3000 ELSE 0))

ClaimedMissingCharge(r) ==
  /\ (Eq(r.total_billed, 0) \/ IsNa(r.total_billed) \/ Eq(r.bill_count, 0))
  /\ ClaimedMissingConfidence(r) >= confidence_threshold

ClaimedMissingLoss(r) ==
  Sub(Mul(r.contracted_rate, IF Gt(r.bill_count, 1) THEN r.bill_count ELSE 1),
      r.total_billed)

ScenarioA(r) ==
  /\ r.contracted_rate = 100 /\ r.bill_count = 0 /\ r.total_billed = 0
  /\ "status" \in data.cols /\ r.status = "Active"
  /\ "total_usage" \in data.cols /\ r.total_usage = 50

ClaimedExpectedRate(r) == (r.base_rate * r.tier_multiplier) \div 10

ClaimedRateVariance(r) ==
  IF IsNa(r.avg_bill_amount) THEN NaN
  ELSE IF ClaimedExpectedRate(r) >= r.avg_bill_amount
       THEN ClaimedExpectedRate(r) - r.avg_bill_amount
       ELSE r.avg_bill_amount - ClaimedExpectedRate(r)

\* variance / expected_rate * 100 > pct, and 0 > pct never, for pct >= 0.
ClaimedRatePctAbove(r, pct) ==
  /\ ~IsNa(ClaimedRateVariance(r))
  /\ ClaimedExpectedRate(r) > 0
  /\ ClaimedRateVariance(r) * 100 > pct * ClaimedExpectedRate(r)

ClaimedRateCandidate(r) ==
  ClaimedRatePctAbove(r, 5) /\ ~IsNa(ClaimedRateVariance(r)) /\ ClaimedRateVariance(r) > 10

ClaimedRateConfidence(r) ==
  Min(One, FAdd(FAdd(6000, IF r.has_rate_error = "True" THEN 3000 ELSE 0),
                IF ClaimedRatePctAbove(r, 20) THEN 1000 ELSE 0))

ClaimedRateDetection(r) ==
  ClaimedRateCandidate(r) /\ ClaimedRateConfidence(r) >= confidence_threshold

ScenarioB(r) ==
  /\ r.base_rate = 50 /\ r.tier_multiplier = 12 /\ r.avg_bill_amount = 40
  /\ r.bill_count = 3 /\ r.has_rate_error = "False"

BilledOverageCharge(contract_id) ==
  LET Mine(b) == b.contract_id = contract_id
      Charge(b) == b.overage_charge
  IN  SumSeq(MapSeq(Charge, SelectSeq(processed_data["billing"].rows, Mine)))

ClaimedOverageVariance(r) ==
  (IF r.total_usage > r.included_usage
   THEN (r.total_usage - r.included_usage) * r.overage_rate ELSE 0)
  - BilledOverageCharge(r.contract_id)

ClaimedUsageCandidate(r) ==
  LET expected == IF r.total_usage > r.included_usage
                  THEN (r.total_usage - r.included_usage) * r.overage_rate ELSE 0
      variance == IF ClaimedOverageVariance(r) < 0 THEN 0 - ClaimedOverageVariance(r)
                  ELSE ClaimedOverageVariance(r)
  IN  /\ r.usage_based = TRUE
      /\ expected > 0
      /\ variance * 100 > 15 * expected
      /\ variance > 5

\* C13: in the pipeline every USAGE_MISMATCHES detection is for a usage-based
\* contract with variance_pct > 15 and |overage_variance| > 5, where
\* overage_variance = max(0, total_usage - included_usage) * overage_rate -
\* the overage charge billed for the contract, and reports |overage_variance|
\* as its loss; a contract billed exactly its expected overage is not
\* reported.
C13_UsageMismatchAgainstBilledOverage ==
  (/\ entry = "pipeline" /\ "usage_mismatches" \in ran
   /\ data = joined_data /\ processed_data["billing"].present
   /\ "total_usage" \in data.cols) =>
    \A i \in 1..Len(all_detections) : \A k \in 1..Len(data.rows) :
      (/\ all_detections[i].leakage_type = "USAGE_MISMATCHES"
       /\ all_detections[i].contract_id = data.rows[k].contract_id) =>
        /\ ClaimedUsageCandidate(data.rows[k])
        /\ all_detections[i].estimated_loss \in
             {ClaimedOverageVariance(data.rows[k]), 0 - ClaimedOverageVariance(data.rows[k])}

ClaimedAnomaly(i) ==
  LET o == model_result.out[i]
      rv == IF "revenue_variance" \in data.cols THEN data.rows[i].revenue_variance ELSE 0
  IN  /\ o.pred = -1
      /\ o.score < -1000
      /\ ~IsNa(rv)
      /\ (rv >= 10 \/ rv <= -10)

\* C14: on a table of at least 10 rows perform_anomaly_detection emits a
\* STATISTICAL_ANOMALY detection for exactly the rows the model calls
\* outliers with a score below -0.1 and |revenue_variance| >= 10, with loss
\* |revenue_variance|, confidence min(0.8, 2*|score|) and the missing-charges
\* severity of the loss.
C14_AnomalyRule ==
  ("anomaly" \in ran /\ Len(data.rows) >= 10) =>
    LET found == OfType("STATISTICAL_ANOMALY")
        idx == {i \in 1..Len(data.rows) : ClaimedAnomaly(i)}
    IN  /\ Len(found) = Cardinality(idx)
        /\ \A i \in idx : \E k \in 1..Len(found) :
             LET rv == data.rows[i].revenue_variance
                 score == model_result.out[i].score
             IN  /\ found[k].contract_id = data.rows[i].contract_id
                 /\ found[k].estimated_loss = (IF rv < 0 THEN 0 - rv ELSE rv)
                 /\ found[k].confidence =
                      (IF 0 - 2 * score < 8000 THEN 0 - 2 * score ELSE 8000)
                 /\ found[k].severity =
                      ClaimedSeverity("missing_charges", found[k].estimated_loss)

(***************************************************************************)
(* Properties of repeated runs.                                            *)
(***************************************************************************)
\* C15: the join engine (clean_and_normalize_data, then
\* perform_intelligent_joins) run again on the same raw tables, on the same
\* agent, yields the joined table of its first run, which is the table a
\* fresh agent computes from those raw tables.
C15_JoinIdempotent ==
  [][ (pc = "join" /\ pc' = "save") =>
        /\ joined_data' = perform_intelligent_joins(clean_and_normalize_data(raw_data))
        /\ join_runs >= 1 => joined_data' = joined_data
        /\ raw_data' = raw_data /\ processed_data' = processed_data ]_vars

\* The engine has run twice on tables that exercise all three merges.
C15_Witness ==
  /\ join_runs = 2
  /\ joined_data.present
  /\ Len(joined_data.rows) >= 2
  /\ {"status", "total_billed", "total_usage"} \subseteq joined_data.cols

\* C16: the detectors leave the loaded joined table unchanged; what each
\* one contributes is a function of that table and the threshold alone,
\* whatever ran before it; and a second run of the detection stage on the
\* same table and the same agent yields the detections of the first, in the
\* same order.
C16_DetectorsPure ==
  /\ data.present => data = disk_joined
  /\ "missing_charges" \in ran =>
       OfType("MISSING_CHARGES") = detect_missing_charges(data, confidence_threshold)
  /\ "incorrect_rates" \in ran =>
       OfType("INCORRECT_RATES") = detect_incorrect_rates(data, confidence_threshold)
  /\ "usage_mismatches" \in ran =>
       OfType("USAGE_MISMATCHES") = detect_usage_mismatches(data, confidence_threshold)
  /\ "duplicate_entries" \in ran =>
       OfType("DUPLICATE_ENTRIES") = detect_duplicate_entries(data, confidence_threshold)
  /\ "anomaly" \in ran =>
       OfType("STATISTICAL_ANOMALY") =
         perform_anomaly_detection(data, model_result.out, confidence_threshold)
  /\ (pc = "aggregate" /\ audit_runs >= 1) => all_detections = audit_result.detections

\* The second run has finished its detectors, an anomaly among its findings.
C16_Witness ==
  /\ pc = "aggregate"
  /\ audit_runs = 1
  /\ Len(all_detections) >= 3
  /\ OfType("STATISTICAL_ANOMALY") # <<>>

(***************************************************************************)
(* _create_derived_features on its own: two-row merged tables after the    *)
(* numeric fill, with and without the billing and usage aggregates.        *)
(***************************************************************************)
FeatureRow(contract_id, contracted_rate, bill_count, total_billed, has_rate_error, total_usage) ==
  [ FromContract(ContractOptions[1]) EXCEPT
      !.contract_id = contract_id, !.contracted_rate = contracted_rate,
      !.bill_count = bill_count, !.total_billed = total_billed,
      !.avg_bill_amount = IF bill_count = 0 THEN 0 ELSE total_billed \div bill_count,
      !.error_types = [na |-> FALSE, tags |-> <<>>],
      !.has_rate_error = has_rate_error,
      !.total_usage = total_usage, !.avg_usage = total_usage,
      !.max_daily_usage = total_usage,
      !.usage_days = IF total_usage = 0 THEN 0 ELSE 1 ]

FeatureColumnSets ==
  { ContractCols \cup b \cup u :
      b \in {{}, BillingCols \ {"has_rate_error"}, BillingCols},
      u \in {{}, UsageCols} }

FeatureTables ==
  { Table(cols, << FeatureRow(1, cr, bc, tb, hr, tu),
                   FeatureRow(2, 100, 3, 250, "False", 50) >>) :
      cols \in FeatureColumnSets, cr \in {-50, 0, 100}, bc \in {0, 1, 3},
      tb \in {0, 250, 300}, hr \in {"True", "False", "nan"}, tu \in {0, 50} }

InitFeatures ==
  /\ probe = NoProbe
  /\ entry = "features"
  /\ pc = "features"
  /\ sample = NoSources
  /\ disk_joined = NoTable
  /\ confidence_threshold = DefaultThreshold
  /\ raw_data = NoSources
  /\ processed_data = NoSources
  /\ joined_data \in FeatureTables
  /\ disk_detections = [present |-> FALSE, rows |-> <<>>]
  /\ data = NoTable
  /\ all_detections = <<>>
  /\ ran = {}
  /\ failed = "none"
  /\ error = "none"
  /\ scaler_fitted = FALSE
  /\ audit_result = NoResult
  /\ phase = [data_analysis |-> "NONE", audit_detections |-> "NONE",
              reports_and_tickets |-> "NONE"]
  /\ reporting_ran = FALSE
  /\ execution_summary = NoSummary
  /\ join_runs = 0
  /\ audit_runs = 0
  /\ model_result = NoModel
  /\ MonitorConstructed

\* One call of _create_derived_features on the merged table.
CreateDerivedFeatures ==
  /\ pc = "features"
  /\ IF AsTypeIntRaises(joined_data.cols, joined_data.rows)
     THEN /\ error' = "ValueError"
          /\ UNCHANGED joined_data
     ELSE /\ joined_data' =
               LET Derive(r) == _create_derived_features(joined_data.cols, r)
               IN  [ joined_data EXCEPT !.cols = @ \cup DerivedCols(@),
                                        !.rows = MapSeq(Derive, @) ]
          /\ UNCHANGED error
  /\ pc' = "done"
  /\ UNCHANGED << monitorVars, probe, join_runs, audit_runs, model_result, entry, sample,
                  raw_data, processed_data, disk_joined, disk_detections,
                  confidence_threshold, data, all_detections, ran, failed,
                  scaler_fitted, audit_result, phase, reporting_ran,
                  execution_summary >>

NextFeatures == CreateDerivedFeatures

SpecFeatures == InitFeatures /\ [][NextFeatures]_vars

(***************************************************************************)
(* Properties of the joined table.                                         *)
(***************************************************************************)
NoEventsFor(source, contract_id) ==
  \A i \in 1..Len(processed_data[source].rows) :
    processed_data[source].rows[i].contract_id # contract_id

\* The join step of the pipeline is over, with contracts to join.
JoinStepOver ==
  /\ entry = "pipeline"
  /\ pc \notin {"load_raw", "clean", "join"}
  /\ processed_data["contracts"].present

\* C17: when the billing and usage tables were loaded, the joined table
\* exists and every contract without billing events has total_billed,
\* avg_bill_amount and bill_count 0 in it, every contract without usage
\* events total_usage, avg_usage, max_daily_usage and usage_days 0.
C17_NoEventsMeansZero ==
  (/\ JoinStepOver
   /\ processed_data["billing"].present /\ processed_data["usage_logs"].present) =>
    /\ joined_data.present
    /\ \A k \in 1..Len(joined_data.rows) :
         LET r == joined_data.rows[k]
         IN  /\ NoEventsFor("billing", r.contract_id) =>
                  r.total_billed = 0 /\ r.avg_bill_amount = 0 /\ r.bill_count = 0
             /\ NoEventsFor("usage_logs", r.contract_id) =>
                  /\ r.total_usage = 0 /\ r.avg_usage = 0
                  /\ r.max_daily_usage = 0 /\ r.usage_days = 0

\* rv / emr * 100 in hundredths of a percent, truncated toward zero.
IsPercentage(pct, rv, emr) ==
  IF rv >= 0
  THEN pct >= 0 /\ pct * emr <= rv * 10000 /\ rv * 10000 < (pct + 1) * emr
  ELSE pct <= 0 /\ (0 - pct) * emr <= (0 - rv) * 10000
       /\ (0 - rv) * 10000 < (1 - pct) * emr

\* C18: in every row that has the revenue features, expected_monthly_revenue
\* = contracted_rate * bill_count, revenue_variance = expected_monthly_revenue
\* - total_billed, and revenue_variance_pct = revenue_variance /
\* expected_monthly_revenue * 100 when expected_monthly_revenue > 0 and
\* exactly 0 otherwise, so 0 for a contract without bills.
C18_RevenueFeatures ==
  (/\ pc = "done" /\ error = "none"
   /\ "revenue_variance_pct" \in joined_data.cols) =>
    \A k \in 1..Len(joined_data.rows) :
      LET r == joined_data.rows[k]
      IN  /\ r.expected_monthly_revenue = r.contracted_rate * r.bill_count
          /\ r.revenue_variance = r.expected_monthly_revenue - r.total_billed
          /\ IF r.expected_monthly_revenue > 0
             THEN IsPercentage(r.revenue_variance_pct, r.revenue_variance,
                               r.expected_monthly_revenue)
             ELSE r.revenue_variance_pct = 0
          /\ r.bill_count = 0 => r.revenue_variance_pct = 0

\* Features of a contract without bills next to one billed 250 for 3 x 100.
C18_Witness ==
  /\ pc = "done" /\ error = "none"
  /\ "revenue_variance_pct" \in joined_data.cols
  /\ joined_data.rows[1].bill_count = 0
  /\ joined_data.rows[1].contracted_rate = 100
  /\ joined_data.rows[1].revenue_variance_pct = 0
  /\ joined_data.rows[2].revenue_variance = 50
  /\ joined_data.rows[2].revenue_variance_pct = 1666

\* C19: the joined table exists for every set of contracts, also when some
\* have no billing events, and in every row leakage_risk_score is the number
\* of the indicators |revenue_variance_pct| > 10 and has_rate_error that
\* hold, an integer in 0..2.
C19_RiskScoreDefined ==
  JoinStepOver =>
    /\ joined_data.present
    /\ \A k \in 1..Len(joined_data.rows) :
         LET r == joined_data.rows[k]
             variance == "revenue_variance_pct" \in joined_data.cols
                         /\ (r.revenue_variance_pct > 1000 \/ r.revenue_variance_pct < -1000)
             flagged == "has_rate_error" \in joined_data.cols /\ r.has_rate_error = "True"
         IN  /\ r.leakage_risk_score =
                  (IF variance THEN 1 ELSE 0) + (IF flagged THEN 1 ELSE 0)
             /\ r.leakage_risk_score \in 0..2

(***************************************************************************)
(* Properties of the analysis summary.                                     *)
(***************************************************************************)
RECURSIVE TotalCount(_, _)
TotalCount(count, keys) ==
  IF keys = {} THEN 0
  ELSE LET k == CHOOSE k \in keys : TRUE
       IN  count[k] + TotalCount(count, keys \ {k})

RECURSIVE TotalTypeLoss(_, _)
TotalTypeLoss(by_type, keys) ==
  IF keys = {} THEN 0
  ELSE LET k == CHOOSE k \in keys : TRUE
       IN  Add(by_type[k].loss, TotalTypeLoss(by_type, keys \ {k}))

\* The parts of the summary that count and add up the detections.
SummaryCountsConsistent(summary, detections) ==
  LET by_type == summary.detections_by_type
      by_severity == summary.detections_by_severity
      n == Len(detections)
  IN  /\ summary.total_detections = n
      /\ DOMAIN by_type = {detections[i].leakage_type : i \in 1..n}
      /\ \A ty \in DOMAIN by_type :
           by_type[ty].count =
             Cardinality({i \in 1..n : detections[i].leakage_type = ty})
      /\ TotalCount([ty \in DOMAIN by_type |-> by_type[ty].count], DOMAIN by_type) = n
      /\ DOMAIN by_severity = SeverityNames
      /\ \A sv \in SeverityNames :
           by_severity[sv] = Cardinality({i \in 1..n : detections[i].severity = sv})
      /\ TotalCount(by_severity, SeverityNames) = n
      /\ TotalTypeLoss(by_type, DOMAIN by_type) = summary.total_estimated_loss
      /\ summary.total_estimated_loss = SumLoss(detections)
      /\ summary.high_priority_count = by_severity["HIGH"] + by_severity["CRITICAL"]
      /\ summary.ready_for_reporting_agent = (n > 0)

\* C20 as stated: the summary returned by the audit counts and adds up its
\* detection list, and average_confidence is exactly the mean confidence
\* (0 for an empty list).
C20_SummaryExactMean ==
  audit_result.returned =>
    /\ SummaryCountsConsistent(audit_result.summary, audit_result.detections)
    /\ audit_result.summary.average_confidence * 10 * Len(audit_result.detections)
         = SumConfidence(audit_result.detections)

\* C20, amended: the summary returned by the audit counts and adds up its
\* detection list, and average_confidence is the mean confidence rounded to
\* three decimals (within 0.0005 of the mean), 0 for an empty list.
C20_SummaryConsistent ==
  audit_result.returned =>
    LET summary == audit_result.summary
        n == Len(audit_result.detections)
        total == SumConfidence(audit_result.detections)
    IN  /\ SummaryCountsConsistent(summary, audit_result.detections)
        /\ n = 0 => summary.average_confidence = 0
        /\ summary.average_confidence * 10 * n - total <= 5 * n
        /\ total - summary.average_confidence * 10 * n <= 5 * n

\* A summary over detections of two types, one of them high priority, whose
\* mean confidence has more than three decimals.
C20_Witness ==
  /\ audit_result.returned
  /\ Len(audit_result.detections) >= 2
  /\ Cardinality(DOMAIN audit_result.summary.detections_by_type) >= 2
  /\ audit_result.summary.high_priority_count >= 1
  /\ audit_result.summary.high_priority_count < audit_result.summary.total_detections
  /\ audit_result.summary.average_confidence * 10 * Len(audit_result.detections)
       # SumConfidence(audit_result.detections)

(***************************************************************************)
(* Properties of the cleaned usage events.                                 *)
(***************************************************************************)
\* The amounts of the raw usage events of a contract that are not negative.
NonNegativeAmounts(contract_id) ==
  LET Mine(u) == /\ u.contract_id = contract_id
                 /\ ~IsNa(u.usage_amount) /\ u.usage_amount >= 0
      Amount(u) == u.usage_amount
      events == SelectSeq(raw_data["usage_logs"].rows, Mine)
  IN  [i \in 1..Len(events) |-> Amount(events[i])]

\* C21: when usage events were loaded, every joined row's total_usage,
\* avg_usage, max_daily_usage and usage_days are those of its contract's
\* usage events with usage_amount >= 0 (all 0 when there is none), and
\* total_usage >= 0.
C21_NegativeUsageDropped ==
  (/\ entry = "pipeline" /\ joined_data.present
   /\ raw_data["usage_logs"].present) =>
    \A k \in 1..Len(joined_data.rows) :
      LET r == joined_data.rows[k]
          amounts == NonNegativeAmounts(r.contract_id)
      IN  /\ r.total_usage = SumSeq(amounts)
          /\ r.usage_days = Len(amounts)
          /\ r.avg_usage = IF amounts = <<>> THEN 0
                           ELSE SumSeq(amounts) \div Len(amounts)
          /\ r.max_daily_usage = IF amounts = <<>> THEN 0 ELSE MaxSeq(amounts)
          /\ r.total_usage >= 0

\* A contract joined with one usage event of 50 while a second event of its
\* own, of -5, was in the file.
C21_Witness ==
  /\ entry = "pipeline" /\ joined_data.present
  /\ raw_data["usage_logs"].present
  /\ \E i \in 1..Len(raw_data["usage_logs"].rows) :
       /\ raw_data["usage_logs"].rows[i].usage_amount < 0
       /\ \E k \in 1..Len(joined_data.rows) :
            /\ joined_data.rows[k].contract_id =
                 raw_data["usage_logs"].rows[i].contract_id
            /\ joined_data.rows[k].total_usage = 50
            /\ joined_data.rows[k].usage_days = 1

(***************************************************************************)
(* The pipeline on files whose numeric cells are empty: contracts without  *)
(* rates and allowances, billing events without an amount.                 *)
(***************************************************************************)
DefaultedContract(contract_id, usage_based) ==
  [contract_id |-> contract_id, customer_id |-> 1, usage_based |-> usage_based,
   base_rate |-> NaN, tier_multiplier |-> NaN, contracted_rate |-> NaN,
   included_usage |-> NaN, overage_rate |-> NaN]

DefaultedContractTables ==
  { Table(ContractCols, rows) :
      rows \in { <<DefaultedContract(1, ub)>> : ub \in BOOLEAN }
               \cup { <<DefaultedContract(1, ub1), DefaultedContract(2, ub2)>> :
                        ub1 \in BOOLEAN, ub2 \in BOOLEAN } }

DefaultedBillingOptions ==
  << [contract_id |-> 1, total_amount |-> NaN, overage_charge |-> NaN,
      billing_error_type |-> "nan", rate_error |-> FALSE],
     [contract_id |-> 2, total_amount |-> NaN, overage_charge |-> NaN,
      billing_error_type |-> "nan", rate_error |-> FALSE] >>

DefaultedBillingTables ==
  {NoTable} \cup
  {Table({"contract_id", "total_amount", "overage_charge", "billing_error_type",
          "rate_error"}, rows) :
     rows \in Selections(DefaultedBillingOptions, MaxBilling)}

DefaultedUsageTables ==
  {NoTable, Table({"contract_id", "usage_amount"}, <<>>),
   Table({"contract_id", "usage_amount"},
         << [contract_id |-> 1, usage_amount |-> NaN] >>)}

InitDefaults ==
  /\ probe = NoProbe
  /\ entry = "pipeline"
  /\ pc = "load_raw"
  /\ sample \in [customers : CustomerTables, contracts : DefaultedContractTables,
                 billing : DefaultedBillingTables, usage_logs : DefaultedUsageTables]
  /\ disk_joined = NoTable
  /\ confidence_threshold \in {DefaultThreshold, One}
  /\ InitCommon

SpecDefaults == InitDefaults /\ [][Next]_vars

\* Every numeric field of the row is 0.
AllNumericDefaulted(t, r) == \A col \in NumericCols \cap t.cols : r[col] = 0

\* C22: a joined row whose numeric fields were all missing, and so are 0,
\* yields no detection from any detector.
C22_DefaultedRowNeverDetected ==
  \A i \in 1..Len(all_detections) :
    \A k \in 1..Len(data.rows) :
      (data.rows[k].contract_id = all_detections[i].contract_id)
        => ~AllNumericDefaulted(data, data.rows[k])

(***************************************************************************)
(* Properties of the order of the stages.                                  *)
(***************************************************************************)
StageOrder ==
  << "load_raw", "clean", "join", "save", "load_processed", "missing_charges",
     "incorrect_rates", "usage_mismatches", "duplicate_entries", "anomaly",
     "aggregate", "reporting", "summary", "done" >>

StageRank(stage) == CHOOSE i \in 1..Len(StageOrder) : StageOrder[i] = stage

DetectorOrder ==
  << "missing_charges", "incorrect_rates", "usage_mismatches",
     "duplicate_entries", "anomaly" >>

\* The detectors that have run are a prefix of the detector order, and the
\* one about to run is the next of it.
DetectorsInOrder ==
  /\ \E n \in 0..Len(DetectorOrder) : ran = {DetectorOrder[j] : j \in 1..n}
  /\ \A i \in 1..Len(DetectorOrder) :
       pc = DetectorOrder[i] =>
         /\ data.present
         /\ ran = {DetectorOrder[j] : j \in 1..(i - 1)}
  /\ pc = "aggregate" => ran = Detectors
  /\ audit_result.returned => ran = Detectors
  /\ ran # {} => data.present

\* No stage has run after a failed one.
NothingAfterFailure ==
  /\ (entry = "pipeline" /\ StageRank(pc) \in StageRank("load_processed")..StageRank("reporting"))
       => phase.data_analysis = "SUCCESS"
  /\ (entry = "pipeline" /\ phase.data_analysis # "SUCCESS") =>
       ~data.present /\ ran = {} /\ phase.audit_detections = "NONE"
  /\ (reporting_ran \/ pc = "reporting") =>
       /\ phase.data_analysis = "SUCCESS" /\ phase.audit_detections = "SUCCESS"
       /\ audit_result.returned
  /\ phase.audit_detections # "SUCCESS" =>
       ~reporting_ran /\ phase.reports_and_tickets = "NONE"
  /\ failed # "none" => ~audit_result.returned /\ ~reporting_ran
                        /\ pc \in {"summary", "done"}

ExecutionSummaryCounts ==
  execution_summary.done =>
    /\ execution_summary.overall_success =
         (\A p \in DOMAIN phase : phase[p] = "SUCCESS")
    /\ execution_summary.phases_completed =
         Cardinality({p \in DOMAIN phase : phase[p] = "SUCCESS"})

\* C23: every step moves to a later stage and skips stages only to the
\* execution summary or the end after a failure (the audit run on its own
\* ends after its save); the audit runs only after a successful data
\* analysis and reporting only after a successful audit; run_full_audit
\* runs load, the five detectors in their order, then aggregate and save;
\* overall_success holds iff the three phases succeeded and
\* phases_completed counts the successful ones.
C23_StagesInOrder ==
  [][ /\ StageRank(pc') > StageRank(pc)
      /\ StageRank(pc') # StageRank(pc) + 1 =>
           \/ /\ pc' \in {"summary", "done"}
              /\ \/ phase'.data_analysis = "FAILED" /\ pc = "join"
                 \/ failed' = pc /\ failed = "none"
                 \/ failed' = "load" /\ pc = "load_processed"
           \/ entry = "audit_main" /\ pc = "aggregate" /\ pc' = "done"
      /\ DetectorsInOrder'
      /\ NothingAfterFailure'
      /\ ExecutionSummaryCounts' ]_vars

\* A pipeline run whose audit failed after a successful data analysis: no
\* reporting, one phase completed.
C23_Witness ==
  /\ entry = "pipeline"
  /\ phase.data_analysis = "SUCCESS" /\ phase.audit_detections = "FAILED"
  /\ failed \in Detectors
  /\ ~reporting_ran
  /\ execution_summary.done
  /\ ~execution_summary.overall_success
  /\ execution_summary.phases_completed = 1

(***************************************************************************)
(* Properties of the severity tables.                                      *)
(***************************************************************************)
SeverityRank(severity) ==
  CASE severity = "LOW" -> 1 [] severity = "MEDIUM" -> 2
    [] severity = "HIGH" -> 3 [] severity = "CRITICAL" -> 4

\* The table starts at 0, each interval starts where the one before it
\* ends, the last one ends at infinity and the labels go up.
AscendingAndGapFree(mapping) ==
  /\ mapping[1][1] = 0
  /\ mapping[Len(mapping)][2] = INF
  /\ \A i \in 1..Len(mapping) : mapping[i][1] < mapping[i][2]
  /\ \A i \in 1..(Len(mapping) - 1) :
       /\ mapping[i][2] = mapping[i + 1][1]
       /\ SeverityRank(mapping[i][3]) < SeverityRank(mapping[i + 1][3])

\* C24: the table of the probed type is ascending, non-overlapping and
\* gap-free from 0 to infinity; a loss >= 0 lies in exactly one interval and
\* gets that interval's severity, the default LOW is reached only for a
\* negative or undefined loss, and the severity is not lower than that of
\* the loss one unit smaller.
C24_SeverityTablesPartition ==
  probe.severity # "none" =>
    LET mapping == leakage_rules[probe.leakage_type]
        loss == probe.estimated_loss
        containing == {i \in 1..Len(mapping) :
                         ~IsNa(loss) /\ mapping[i][1] <= loss /\ loss < mapping[i][2]}
    IN  /\ AscendingAndGapFree(mapping)
        /\ (~IsNa(loss) /\ loss >= 0) =>
             /\ Cardinality(containing) = 1
             /\ \A i \in containing : probe.severity = mapping[i][3]
             /\ SeverityRank(_calculate_severity(probe.leakage_type, loss - 1))
                  <= SeverityRank(probe.severity)
        /\ containing = {} => (IsNa(loss) \/ loss < 0) /\ probe.severity = "LOW"

\* A usage-mismatch loss of exactly 1000, the start of the last interval,
\* was mapped to CRITICAL.
C24_Witness ==
  /\ probe.leakage_type = "usage_mismatches"
  /\ probe.estimated_loss = 1000
  /\ probe.severity = "CRITICAL"

(***************************************************************************)
(* run_full_audit called again after the data analyst saved a new joined   *)
(* table.                                                                  *)
(***************************************************************************)
\* The joined tables of the later analysis: one correctly billed contract,
\* or one contract without bills.
ResaveTables == {Table(AuditCols, << FillerRow(1) >>), StaleTable}

RerunAfterNewAnalysis ==
  /\ entry = "audit_main"
  /\ pc = "done"
  /\ audit_result.returned
  /\ audit_runs < MaxAuditRuns
  /\ disk_joined' \in ResaveTables
  /\ pc' = "load_processed"
  /\ all_detections' = <<>>
  /\ ran' = {}
  /\ UNCHANGED << monitorVars, probe, join_runs, audit_runs, model_result, entry, sample,
                  analystVars, disk_detections, confidence_threshold,
                  data, failed, error, scaler_fitted, audit_result, phase,
                  reporting_ran, execution_summary >>

NextResave ==
  \/ load_processed_data
  \/ DetectMissingCharges
  \/ DetectIncorrectRates
  \/ DetectUsageMismatches
  \/ DetectDuplicateEntries
  \/ PerformAnomalyDetection
  \/ AggregateAndSave
  \/ RerunAfterNewAnalysis

SpecResave == InitRerunAudit /\ [][NextResave]_vars

\* C25: when a run_full_audit has returned, the persisted detections are
\* exactly the detections of that run, none when it found none.
C25_PersistedDetectionsAreLatest ==
  (pc = "done" /\ audit_result.returned /\ failed = "none") =>
    IF audit_result.detections = <<>>
    THEN ~disk_detections.present \/ disk_detections.rows = <<>>
    ELSE disk_detections.present /\ disk_detections.rows = audit_result.detections

(***************************************************************************)
(* Properties of the hand-over between the phases.                         *)
(***************************************************************************)
\* C26: in a pipeline run whose data analysis reported success, the joined
\* table on disk is the one that run computed, and the table the audit has
\* loaded is that table.
C26_AuditLoadsFreshJoin ==
  (entry = "pipeline" /\ phase.data_analysis = "SUCCESS") =>
    /\ disk_joined = joined_data
    /\ data.present => data = joined_data

(***************************************************************************)
(* detect_usage_mismatches on its own: one-row tables with and without an  *)
(* overage_charge column, over usage below, at and above the allowance.    *)
(***************************************************************************)
UsageRow(usage_based, total_usage, included_usage, overage_rate, overage_charge) ==
  _create_derived_features(AuditCols,
    [ AuditRow("Active", 100, 300, 3, 60, "False", usage_based, 0,
               [na |-> FALSE, tags |-> <<>>])
      EXCEPT !.total_usage = total_usage, !.included_usage = included_usage,
             !.overage_rate = overage_rate, !.overage_charge = overage_charge ])

UsageMismatchTables ==
  { Table(cols, << UsageRow(ub, tu, iu, rate, oc) >>) :
      cols \in {AuditCols, AuditCols \cup {"overage_charge"}},
      ub \in BOOLEAN, tu \in {NaN, 0, 10, 50}, iu \in {NaN, 10, 60},
      rate \in {NaN, 0, 2}, oc \in {NaN, 0, 30, 60, 80, 100} }

InitUsage == InitLoaded(UsageMismatchTables, "usage_mismatches")

NextUsage == DetectUsageMismatches

SpecUsage == InitUsage /\ [][NextUsage]_vars

\* The usage-based rows the detector takes as candidates.
UsageCandidates ==
  LET Candidate(r) == IsUsageBased(r) /\ IsUsageMismatchCandidate(data, r)
  IN  SelectSeq(data.rows, Candidate)

\* C27: after detect_usage_mismatches, every candidate has total_usage >
\* included_usage and a confidence of at least 0.7, every usage-mismatch
\* detection has a confidence of at least 0.7, and a candidate is left out
\* only under a threshold above 0.7: at 0.7 or below there is one detection
\* for each candidate.
C27_UsageCandidatesReachDefaultThreshold ==
  "usage_mismatches" \in ran =>
    LET found == OfType("USAGE_MISMATCHES")
    IN  /\ \A k \in 1..Len(UsageCandidates) :
             LET r == UsageCandidates[k]
             IN  /\ ~IsNa(r.total_usage) /\ ~IsNa(r.included_usage)
                 /\ r.total_usage > r.included_usage
                 /\ _calculate_confidence_usage_mismatch(
                      data, r, UsageVariancePct(data, r)) >= DefaultThreshold
        /\ \A i \in 1..Len(found) : found[i].confidence >= DefaultThreshold
        /\ Len(found) <= Len(UsageCandidates)
        /\ Len(found) < Len(UsageCandidates) =>
             confidence_threshold > DefaultThreshold
        /\ confidence_threshold <= DefaultThreshold =>
             Len(found) = Len(UsageCandidates)

\* A contract billed 60 of its expected overage of 80: variance 25 percent,
\* confidence exactly 0.7, emitted under the default threshold.
C27_Witness ==
  /\ "usage_mismatches" \in ran
  /\ confidence_threshold = DefaultThreshold
  /\ Len(UsageCandidates) = 1
  /\ Len(OfType("USAGE_MISMATCHES")) = 1
  /\ OfType("USAGE_MISMATCHES")[1].confidence = DefaultThreshold
  /\ OfType("USAGE_MISMATCHES")[1].estimated_loss = 20

(***************************************************************************)
(* Properties of the detection list of one run.                            *)
(***************************************************************************)
UniqueContractIds(t) ==
  \A i, j \in 1..Len(t.rows) :
    t.rows[i].contract_id = t.rows[j].contract_id => i = j

\* C28: when the contract ids of the audited table are unique, no contract
\* has two detections of one leakage type, so none has more than five and
\* no detector has emitted more detections than there are rows, and the
\* detection_id values are pairwise distinct.
C28_OneDetectionPerRowAndType ==
  (data.present /\ UniqueContractIds(data)) =>
    /\ \A i, j \in 1..Len(all_detections) :
         (/\ all_detections[i].contract_id = all_detections[j].contract_id
          /\ all_detections[i].leakage_type = all_detections[j].leakage_type)
           => i = j
    /\ \A i, j \in 1..Len(all_detections) :
         detection_id(all_detections[i]) = detection_id(all_detections[j]) => i = j
    /\ \A k \in 1..Len(data.rows) :
         Cardinality({i \in 1..Len(all_detections) :
                        all_detections[i].contract_id = data.rows[k].contract_id}) <= 5
    /\ \A ty \in DOMAIN IdPrefix : Len(OfType(ty)) <= Len(data.rows)

\* A finished run over several contracts in which one contract has a
\* missing-charges detection, an anomaly detection and one more.
C28_Witness ==
  /\ audit_result.returned
  /\ Len(data.rows) >= 2 /\ UniqueContractIds(data)
  /\ \E i, j, k \in 1..Len(all_detections) :
       /\ all_detections[i].leakage_type = "MISSING_CHARGES"
       /\ all_detections[j].leakage_type = "STATISTICAL_ANOMALY"
       /\ k \notin {i, j}
       /\ all_detections[i].contract_id = all_detections[j].contract_id
       /\ all_detections[i].contract_id = all_detections[k].contract_id

(***************************************************************************)
(* RealtimeMonitor: start_monitoring, stop_monitoring and the two loops.   *)
(* A loop thread is at "test" (about to evaluate while self.is_running),   *)
(* in its "body", in its "sleep" or has "ended".                           *)
(***************************************************************************)
max_recent_alerts == 100

\* The start_monitoring and stop_monitoring calls of a run.
MaxMonitorCalls == 4

\* The alerts the loops of a run raise on their own.
MaxLoopAlerts == 3

\* Variant: the newest alert dropped.
DropNewest(alerts) == SubSeq(alerts, 1, Len(alerts) - 1)

\* recent_alerts.pop(0)
DropOldest(alerts) == Tail(alerts)

\* _send_alert run by one thread without another in between: append, trim,
\* then every handler called, a raising one logged and passed over.
SendAlert ==
  /\ alerts_sent' = alerts_sent + 1
  /\ recent_alerts' =
       LET appended == Append(recent_alerts, alerts_sent + 1)
       IN  IF Len(appended) > max_recent_alerts THEN DropOldest(appended)
           ELSE appended
  /\ received' = [h \in Handlers |-> received[h] + 1]

\* The number of start_monitoring calls that started threads.
Generation == Len(threads) \div 2

LoopThread(kind) == [kind |-> kind, pc |-> "test", generation |-> Generation + 1]

start_monitoring ==
  /\ monitor_calls < MaxMonitorCalls
  /\ monitor_calls' = monitor_calls + 1
  /\ IF is_running
     THEN UNCHANGED << is_running, threads, scheduled_jobs, recent_alerts,
                       alerts_sent, received >>
     ELSE /\ is_running' = TRUE
          /\ threads' = threads \o << LoopThread("monitoring"), LoopThread("scheduler") >>
          /\ scheduled_jobs' = scheduled_jobs + 2
          /\ SendAlert
  /\ UNCHANGED << pipelineVars, senders >>

stop_monitoring ==
  /\ monitor_calls < MaxMonitorCalls
  /\ monitor_calls' = monitor_calls + 1
  /\ IF ~is_running
     THEN UNCHANGED << is_running, scheduled_jobs, recent_alerts, alerts_sent,
                       received >>
     ELSE /\ is_running' = FALSE
          /\ scheduled_jobs' = 0
          /\ SendAlert
  /\ UNCHANGED << pipelineVars, threads, senders >>

\* while self.is_running:
LoopTest(t) ==
  /\ threads[t].pc = "test"
  /\ threads' = [threads EXCEPT ![t].pc = IF is_running THEN "body" ELSE "ended"]
  /\ UNCHANGED << pipelineVars, is_running, scheduled_jobs, monitor_calls,
                  recent_alerts, alerts_sent, received, senders >>

\* One pass of a loop body: the checks of _monitoring_loop, or run_pending
\* in _scheduler_loop, which runs the jobs that are due; either may send an
\* alert.
LoopBody(t) ==
  /\ threads[t].pc = "body"
  /\ threads' = [threads EXCEPT ![t].pc = "sleep"]
  /\ \E alert \in BOOLEAN :
       IF /\ alert
          /\ alerts_sent < MaxMonitorCalls + MaxLoopAlerts
          /\ threads[t].kind = "scheduler" => scheduled_jobs > 0
       THEN SendAlert
       ELSE UNCHANGED << recent_alerts, alerts_sent, received >>
  /\ UNCHANGED << pipelineVars, is_running, scheduled_jobs, monitor_calls, senders >>

\* time.sleep returns.
LoopWake(t) ==
  /\ threads[t].pc = "sleep"
  /\ threads' = [threads EXCEPT ![t].pc = "test"]
  /\ UNCHANGED << pipelineVars, is_running, scheduled_jobs, monitor_calls,
                  recent_alerts, alerts_sent, received, senders >>

InitMonitor ==
  /\ probe = NoProbe
  /\ entry = "monitor"
  /\ pc = "monitor"
  /\ sample = NoSources
  /\ disk_joined = NoTable
  /\ confidence_threshold = DefaultThreshold
  /\ InitCommon

NextMonitor ==
  \/ start_monitoring
  \/ stop_monitoring
  \/ \E t \in 1..Len(threads) : LoopTest(t)
  \/ \E t \in 1..Len(threads) : LoopBody(t)
  \/ \E t \in 1..Len(threads) : LoopWake(t)

SpecMonitor == InitMonitor /\ [][NextMonitor]_vars

\* C29: start_monitoring while running starts no thread, and a loop thread
\* that enters another pass of its loop belongs to the latest
\* start_monitoring: the threads of an earlier start do not iterate again
\* once stop_monitoring was called.
C29_OldLoopsDoNotResume ==
  [][ /\ (is_running /\ monitor_calls' = monitor_calls + 1 /\ is_running')
        => threads' = threads
      /\ \A t \in 1..Len(threads) :
           (threads[t].pc = "test" /\ threads'[t].pc = "body")
             => threads[t].generation = Generation ]_vars

(***************************************************************************)
(* _send_alert step by step, as the caller's thread, the monitoring thread *)
(* and the scheduler thread run it side by side on a started monitor: the  *)
(* append, the length test, the pop and each handler call are steps of     *)
(* their own.                                                              *)
(***************************************************************************)
MaxAlerts == 103

\* self.recent_alerts.append(alert)
SendAppend(c) ==
  /\ senders[c].pc = "idle"
  /\ alerts_sent < MaxAlerts
  /\ alerts_sent' = alerts_sent + 1
  /\ recent_alerts' = Append(recent_alerts, alerts_sent + 1)
  /\ senders' = [senders EXCEPT ![c] = [pc |-> "check", alert |-> alerts_sent + 1,
                                        handler |-> 0, raised |-> FALSE]]
  /\ UNCHANGED << pipelineVars, is_running, threads, scheduled_jobs, monitor_calls,
                  received >>

\* if len(self.recent_alerts) > self.max_recent_alerts:
SendCheck(c) ==
  /\ senders[c].pc = "check"
  /\ senders' = [senders EXCEPT
                   ![c].pc = IF Len(recent_alerts) > max_recent_alerts THEN "pop"
                             ELSE "handle",
                   ![c].handler = IF Len(recent_alerts) > max_recent_alerts THEN 0
                                  ELSE 1]
  /\ UNCHANGED << pipelineVars, is_running, threads, scheduled_jobs, monitor_calls,
                  recent_alerts, alerts_sent, received >>

SendPop(c) ==
  /\ senders[c].pc = "pop"
  /\ recent_alerts' = DropOldest(recent_alerts)
  /\ senders' = [senders EXCEPT ![c].pc = "handle", ![c].handler = 1]
  /\ UNCHANGED << pipelineVars, is_running, threads, scheduled_jobs, monitor_calls,
                  alerts_sent, received >>

\* One pass of "for handler in self.alert_handlers": the handler is called
\* and returns or raises; what it raises is logged.
SendHandle(c) ==
  /\ senders[c].pc = "handle"
  /\ received' = [received EXCEPT ![senders[c].handler] = @ + 1]
  /\ \E raises \in BOOLEAN :
       senders' = [senders EXCEPT ![c] =
                     IF senders[c].handler = MaxHandlers THEN NoCall
                     ELSE [@ EXCEPT !.handler = @ + 1,
                                    !.raised = @ \/ raises]]
  /\ UNCHANGED << pipelineVars, is_running, threads, scheduled_jobs, monitor_calls,
                  recent_alerts, alerts_sent >>

\* A monitor that has been running for a while: both loops in their bodies
\* and max_recent_alerts - 2 alerts sent one after the other, each recorded
\* and handled, so that the record fills up within the next few alerts.
InitAlerts ==
  /\ probe = NoProbe
  /\ entry = "monitor"
  /\ pc = "monitor"
  /\ sample = NoSources
  /\ disk_joined = NoTable
  /\ confidence_threshold = DefaultThreshold
  /\ raw_data = NoSources
  /\ processed_data = NoSources
  /\ joined_data = NoTable
  /\ disk_detections = [present |-> FALSE, rows |-> <<>>]
  /\ data = NoTable
  /\ all_detections = <<>>
  /\ ran = {}
  /\ failed = "none"
  /\ error = "none"
  /\ scaler_fitted = FALSE
  /\ audit_result = NoResult
  /\ phase = [data_analysis |-> "NONE", audit_detections |-> "NONE",
              reports_and_tickets |-> "NONE"]
  /\ reporting_ran = FALSE
  /\ execution_summary = NoSummary
  /\ join_runs = 0
  /\ audit_runs = 0
  /\ model_result = NoModel
  /\ is_running = TRUE
  /\ threads = << [kind |-> "monitoring", pc |-> "body", generation |-> 1],
                  [kind |-> "scheduler", pc |-> "body", generation |-> 1] >>
  /\ scheduled_jobs = 2
  /\ monitor_calls = 1
  /\ recent_alerts = [i \in 1..(max_recent_alerts - 2) |-> i]
  /\ alerts_sent = max_recent_alerts - 2
  /\ received = [h \in Handlers |-> max_recent_alerts - 2]
  /\ senders = [c \in Contexts |-> NoCall]

NextAlerts ==
  \/ \E c \in Contexts : SendAppend(c)
  \/ \E c \in Contexts : SendCheck(c)
  \/ \E c \in Contexts : SendPop(c)
  \/ \E c \in Contexts : SendHandle(c)

SpecAlerts == InitAlerts /\ [][NextAlerts]_vars

\* The calls of _send_alert that have appended and not yet trimmed.
Trimming == {c \in Contexts : senders[c].pc \in {"check", "pop"}}

\* The calls that have not yet called handler h.
NotYetAt(h) ==
  {c \in Contexts : \/ senders[c].pc \in {"check", "pop"}
                    \/ senders[c].pc = "handle" /\ senders[c].handler <= h}

\* C30: recent_alerts holds the most recently sent alerts in sending order,
\* at most max_recent_alerts of them once every call has trimmed; an alert
\* is in the record before a handler gets it; and every handler is called
\* with every alert, whether or not an earlier handler raised.
C30_RecentAlertsBounded ==
  /\ \A i \in 1..Len(recent_alerts) :
       recent_alerts[i] = alerts_sent - Len(recent_alerts) + i
  /\ Len(recent_alerts) <= max_recent_alerts + Cardinality(Trimming)
  /\ Trimming = {} => Len(recent_alerts) <= max_recent_alerts
  /\ \A c \in Contexts :
       senders[c].pc # "idle" => senders[c].alert \in 1..alerts_sent
  /\ \A h \in Handlers : received[h] = alerts_sent - Cardinality(NotYetAt(h))

\* More alerts sent than the record holds, the record full, and the last
\* handler about to get an alert on which an earlier handler raised.
C30_Witness ==
  /\ alerts_sent > max_recent_alerts + 1
  /\ Len(recent_alerts) = max_recent_alerts
  /\ recent_alerts[1] = alerts_sent - max_recent_alerts + 1
  /\ \E c \in Contexts :
       /\ senders[c].pc = "handle" /\ senders[c].handler = MaxHandlers
       /\ senders[c].raised
       /\ \A d \in Contexts \ {c} : senders[d].pc = "idle"

=============================================================================
